---- MODULE Spec2Model ----
(***************************************************************************)
(* Power Platform Solution Insights: the bundle ingestion pipeline         *)
(* (services/zipService.ts, parseSolutionZip), the relationship aggregate  *)
(* of the schema visualizer (components/SchemaVisualizer.tsx), the         *)
(* structural diff (App.tsx, solutionDiff), the upload and chat handlers   *)
(* of App.tsx, the oracle service (services/geminiService.ts) and the      *)
(* components that call it (DiffView.tsx, FlowVisualizer of FileView.tsx). *)
(*                                                                         *)
(* Strings of the program are sequences of one-character strings, so that  *)
(* includes / startsWith / endsWith / split / sort / join are computed     *)
(* character by character as the JavaScript does.  An XML document is the  *)
(* record of the elements and attributes the code queries from it.         *)
(***************************************************************************)
EXTENDS Integers, Sequences, FiniteSets, TLC

VARIABLES
    zip,                    \* the opened archive: sequence of zip entries
    pending,                \* indices of entries whose extraction promise has not resolved
    files,                  \* files: SolutionFile[]
    components,             \* components: LogicalComponent[]
    entityMap,              \* entityMap: Map<string, EntityMetadata>, in insertion order
    canvasAppMetadataList,  \* canvasAppMetadataList: CanvasAppMetadata[]
    metadata,               \* metadata (components, entities, canvasApps) once returned
    pc,                     \* position inside parseSolutionZip
    idx,                    \* index of the next element of the pass at pc
    appMode,                \* App state: 'home' | 'explore' | 'compare'
    baseSolution,           \* App state: parsed base bundle or null
    targetSolution,         \* App state: parsed target bundle or null
    baseFile,               \* the archive last handed to handleFileUpload for the base slot
    targetFile,             \* the archive last handed to handleFileUpload for the target slot
    isLoading,              \* App state: isLoading
    alerts,                 \* number of alert('Failed to process solution.') raised
    uploading,              \* the calls of handleFileUpload waiting on parseSolutionZip
    operation,              \* the method of GeminiService in progress, "none" when there is none
    callState,              \* position of the call: idle, invoking, waiting, settled
    retries,                \* executeWithRetry: argument of the current frame
    delay,                  \* executeWithRetry: argument of the current frame
    attempts,               \* the outcomes of the invocations of fn, in order
    waits,                  \* the timeouts waited between the invocations, in order
    outcome,                \* what the method returned or threw to its caller
    chatHistory,            \* App state: chatHistory
    isChatLoading,          \* App state: isChatLoading
    isQuotaExhausted,       \* App state: isQuotaExhausted
    selectedFileDiff,       \* App state: the FileDiff handed to DiffView, or null
    diffView,               \* DiffView state: analysis, isAnalyzing
    diffRequests,           \* the calls of performAnalysis waiting on analyzeDiff
    definition,             \* the flow definition handed to FlowVisualizer
    flowVisualizer,         \* FlowVisualizer state: selectedStep, analysis, isAnalyzing, analysisCache
    flowRequests            \* the calls of handleSelectStep waiting on analyzeFlowStep

uploadVars == <<isLoading, alerts, uploading>>

oracleVars == <<operation, callState, retries, delay, attempts, waits, outcome>>

chatVars == <<chatHistory, isChatLoading, isQuotaExhausted>>

diffViewVars == <<selectedFileDiff, diffView, diffRequests>>

flowVars == <<definition, flowVisualizer, flowRequests>>

viewVars == <<uploadVars, oracleVars, chatVars, diffViewVars, flowVars>>

vars == <<zip, pending, files, components, entityMap, canvasAppMetadataList,
          metadata, pc, idx, appMode, baseSolution, targetSolution, baseFile, targetFile,
          viewVars>>

parseVars == <<zip, pending, files, components, entityMap, canvasAppMetadataList,
               metadata, pc, idx>>

appVars == <<appMode, baseSolution, targetSolution, baseFile, targetFile>>

(***************************************************************************)
(* Bounds of the model.                                                    *)
(***************************************************************************)
\* total number of manifest elements (root components, roles, entities,
\* app modules, workflows, canvas app descriptors) of a reconciliation bundle
MaxElements == 3
\* number of EntityRelationship elements of a relationship bundle
MaxRels == 2
\* number of distinct contents an archive entry of a diffed bundle can have
MaxContents == 2
\* the privileges of the role whose names are decomposed
MaxPrivileges == 2

(***************************************************************************)
(* JavaScript values.                                                      *)
(***************************************************************************)
\* undefined / null where the defined value is a record
Undefined == [undefined |-> TRUE]
Null == [null |-> TRUE]
\* the outcome of an evaluation that throws
Threw == [threw |-> "TypeError"]
\* an optional string: <<>> is undefined, <<s>> is the string s
None == <<>>
Some(s) == <<s>>

\* a || b on strings: the empty string is falsy
Or(a, b) == IF a # <<>> THEN a ELSE b

\* String.prototype.includes
Includes(s, p) == \E i \in 0..(Len(s) - Len(p)) : SubSeq(s, i + 1, i + Len(p)) = p

\* String.prototype.startsWith
StartsWith(s, p) == Len(p) <= Len(s) /\ SubSeq(s, 1, Len(p)) = p

\* String.prototype.endsWith
EndsWith(s, p) == Len(p) <= Len(s) /\ SubSeq(s, Len(s) - Len(p) + 1, Len(s)) = p

\* s.split(sep).pop() for a one-character separator: what follows the last
\* separator, the whole string when there is none
SplitPop(s, sep) ==
    LET cut == {i \in 1..Len(s) : s[i] = sep}
        last == IF cut = {} THEN 0 ELSE CHOOSE i \in cut : \A j \in cut : j <= i
    IN  SubSeq(s, last + 1, Len(s))

UpperCase ==
    <<"A", "B", "C", "D", "E", "F", "G", "H", "I", "J", "K", "L", "M",
      "N", "O", "P", "Q", "R", "S", "T", "U", "V", "W", "X", "Y", "Z">>

LowerCase ==
    <<"a", "b", "c", "d", "e", "f", "g", "h", "i", "j", "k", "l", "m",
      "n", "o", "p", "q", "r", "s", "t", "u", "v", "w", "x", "y", "z">>

\* String.prototype.toLowerCase, one character
LowerChar(c) ==
    IF \E k \in 1..Len(UpperCase) : UpperCase[k] = c
    THEN LowerCase[CHOOSE k \in 1..Len(UpperCase) : UpperCase[k] = c]
    ELSE c

ToLowerCase(s) == [i \in 1..Len(s) |-> LowerChar(s[i])]

\* Array.prototype.find / findIndex: index of the first element passing the
\* test, 0 when there is none
FindIndex(seq, Test(_)) ==
    IF \E i \in 1..Len(seq) : Test(seq[i])
    THEN CHOOSE i \in 1..Len(seq) : Test(seq[i]) /\ \A j \in 1..(i - 1) : ~Test(seq[j])
    ELSE 0

\* Array.prototype.map
Map(seq, F(_)) == [i \in 1..Len(seq) |-> F(seq[i])]

\* Array.from(new Set(seq)): first occurrences, in order
RECURSIVE ArrayFromSet(_)
ArrayFromSet(seq) ==
    IF seq = <<>> THEN <<>>
    ELSE LET front == ArrayFromSet(SubSeq(seq, 1, Len(seq) - 1))
             last == seq[Len(seq)]
         IN  IF \E i \in 1..Len(front) : front[i] = last THEN front ELSE Append(front, last)

Range(seq) == {seq[i] : i \in 1..Len(seq)}

\* all sequences over S of length at most n
RECURSIVE SeqsUpTo(_, _)
SeqsUpTo(S, n) ==
    IF n <= 0 THEN {<<>>}
    ELSE LET shorter == SeqsUpTo(S, n - 1)
         IN  shorter \cup {Append(s, x) : s \in {t \in shorter : Len(t) = n - 1}, x \in S}

(***************************************************************************)
(* String literals of the source.                                          *)
(***************************************************************************)
CustomizationsPath == <<"c", "u", "s", "t", "o", "m", "i", "z", "a", "t", "i", "o", "n", "s", ".", "x", "m", "l">>
SolutionPath == <<"s", "o", "l", "u", "t", "i", "o", "n", ".", "x", "m", "l">>
CanvasPrefix == <<"C", "a", "n", "v", "a", "s", "A", "p", "p", "s", "/">>
EntitiesPrefix == <<"E", "n", "t", "i", "t", "i", "e", "s", "/">>
MsappSuffix == <<".", "m", "s", "a", "p", "p">>
XmlSuffix == <<".", "x", "m", "l">>
Underscore == <<"_">>
Slash == <<"/">>
\* the string '[Binary Content]' stored for an entry read as bytes
BinaryContent == [kind |-> "marker"]
UntitledFlow == <<"U", "n", "t", "i", "t", "l", "e", "d", " ", "F", "l", "o", "w">>
GlobalSystem == <<"G", "l", "o", "b", "a", "l", " ", "S", "y", "s", "t", "e", "m">>
Prv == <<"p", "r", "v">>

\* the alternation of the privilege pattern, in the order the regex tries it
ActionVocabulary ==
    << <<"C", "r", "e", "a", "t", "e">>, <<"R", "e", "a", "d">>,
       <<"W", "r", "i", "t", "e">>, <<"D", "e", "l", "e", "t", "e">>,
       <<"A", "p", "p", "e", "n", "d", "T", "o">>, <<"A", "p", "p", "e", "n", "d">>,
       <<"A", "s", "s", "i", "g", "n">>, <<"S", "h", "a", "r", "e">> >>

\* COMPONENT_TYPE_MAP[typeId] || 'Other'
ComponentTypeOf(typeId) ==
    CASE typeId \in {"1", "2", "3", "9"} -> "Table"
      [] typeId = "20" -> "SecurityRole"
      [] typeId = "26" -> "WebResource"
      [] typeId = "29" -> "Flow"
      [] typeId \in {"30", "300"} -> "App"
      [] typeId = "60" -> "ModelApp"
      [] typeId = "62" -> "Sitemap"
      [] typeId \in {"91", "92"} -> "Plugin"
      [] typeId = "371" -> "ConnectionRef"
      [] typeId = "380" -> "EnvVar"
      [] OTHER -> "Other"

(***************************************************************************)
(* 1. Collect all files from ZIP.                                          *)
(*                                                                         *)
(* A zip entry is [name, dir, data].  data is what the archive stores:     *)
(* [kind |-> "bytes", bytes |-> <<b1, ...>>] for arbitrary bytes, or the   *)
(* record of a well-formed XML document (its text decodes to itself).      *)
(***************************************************************************)
\* the replacement character the UTF-8 decoder emits for a byte that is not
\* part of a valid sequence
ReplacementChar == 65533

\* zipEntry.async('string') on bytes: ASCII bytes decode to themselves, a lone
\* byte above 127 decodes to U+FFFD
Utf8Decode(bytes) == [i \in 1..Len(bytes) |-> IF bytes[i] < 128 THEN bytes[i] ELSE ReplacementChar]

AsyncString(data) ==
    IF data.kind = "bytes" THEN [kind |-> "text", text |-> Utf8Decode(data.bytes)] ELSE data

\* the SolutionFile['type'] of a path
FileTypeOf(relativePath) ==
    LET ext == ToLowerCase(SplitPop(relativePath, "."))
    IN  CASE ext = <<"x", "m", "l">> -> "xml"
          [] ext = <<"x", "a", "m", "l">> -> "xaml"
          [] ext = <<"j", "s", "o", "n">> -> "json"
          [] ext = <<"j", "s">> -> "js"
          [] ext = <<"c", "s", "s">> -> "css"
          [] OTHER -> "other"

\* the body of the .then callback: the SolutionFile pushed for an entry.  An
\* entry ending in .msapp is read as a Uint8Array, so its content is the marker
MakeFile(entry) ==
    [name |-> SplitPop(entry.name, "/"),
     path |-> entry.name,
     content |-> IF EndsWith(entry.name, MsappSuffix) THEN BinaryContent ELSE AsyncString(entry.data),
     type |-> FileTypeOf(entry.name)]

\* files.filter(test).map(f => f.path)
PathsWhere(fs, Test(_)) == Map(SelectSeq(fs, Test), LAMBDA f : f.path)

\* files.find(f => f.path === path)?.content, undefined when absent
ContentAt(fs, path) ==
    LET i == FindIndex(fs, LAMBDA f : f.path = path)
    IN  IF i = 0 THEN Undefined ELSE fs[i].content

\* the RootComponent nodes of solution.xml (none when the file is absent or
\* is not a solution descriptor)
RootComponentsOf(fs) ==
    LET doc == ContentAt(fs, SolutionPath)
    IN  IF doc # Undefined /\ doc.kind = "solution" THEN doc.roots ELSE <<>>

EmptyCustomizations ==
    [kind |-> "customizations", roles |-> <<>>, entities |-> <<>>,
     relationships |-> <<>>, appModules |-> <<>>, workflows |-> <<>>]

\* the parsed customizations.xml (no element when the file is absent)
CustomizationsOf(fs) ==
    LET doc == ContentAt(fs, CustomizationsPath)
    IN  IF doc # Undefined /\ doc.kind = "customizations" THEN doc ELSE EmptyCustomizations

(***************************************************************************)
(* 2. Root components of solution.xml.                                     *)
(***************************************************************************)
RootMerge(comps, fs, node) ==
    IF node.id # <<>> /\ ~(\E i \in 1..Len(comps) : comps[i].id = node.id)
    THEN Append(comps,
            [id |-> node.id,
             logicalName |-> Or(node.schemaName, node.id),
             displayName |-> Or(node.schemaName, node.id),
             type |-> ComponentTypeOf(node.type),
             description |-> None,
             files |-> PathsWhere(fs, LAMBDA f : Includes(f.path, node.id)
                                  \/ (node.schemaName # <<>> /\ Includes(f.path, node.schemaName))),
             metadata |-> Undefined])
    ELSE comps

(***************************************************************************)
(* 3. customizations.xml: security roles.                                  *)
(***************************************************************************)
\* the line terminators of a regular expression: line feed, carriage return,
\* line separator and paragraph separator (spelled out)
LineTerminators == {"LF", "CR", "LS", "PS"}

\* privName.match(/^prv(Create|Read|Write|Delete|AppendTo|Append|Assign|Share)(.*)$/):
\* index of the first alternative that matches, 0 for no match.  The dot of
\* (.*) matches no line terminator, and $ matches at the end only
ActionMatch(privName) ==
    FindIndex(ActionVocabulary,
              LAMBDA a : /\ StartsWith(privName, Prv \o a)
                         /\ \A i \in (Len(Prv \o a) + 1)..Len(privName) :
                               privName[i] \notin LineTerminators)

RolePrivilege(p) ==
    LET k == ActionMatch(p.name)
        rest == SubSeq(p.name, Len(Prv) + Len(ActionVocabulary[k]) + 1, Len(p.name))
    IN  [privilegeId |-> Or(p.privilegeid, p.name),
         name |-> p.name,
         level |-> p.level,
         depth |-> IF p.depth # <<>> THEN Some(p.depth) ELSE None,
         action |-> IF k # 0 THEN Some(ActionVocabulary[k]) ELSE None,
         entity |-> IF k # 0 THEN Or(rest, GlobalSystem)
                    ELSE IF StartsWith(p.name, Prv) THEN SubSeq(p.name, 4, Len(p.name))
                    ELSE p.name]

RoleMeta(node) ==
    [id |-> node.id, name |-> node.name, isManaged |-> (node.ismanaged = <<"1">>),
     privileges |-> Map(node.privileges, RolePrivilege)]

\* components.find(c => c.id === id && c.type === 'SecurityRole')
RoleTarget(comps, node) ==
    FindIndex(comps, LAMBDA c : c.id = node.id /\ c.type = "SecurityRole")

RoleMerge(comps, fs, node) ==
    LET existing == RoleTarget(comps, node)
    IN  IF existing # 0
        THEN [comps EXCEPT ![existing].displayName = node.name,
                           ![existing].metadata = RoleMeta(node)]
        ELSE Append(comps,
                [id |-> node.id, logicalName |-> node.name, displayName |-> node.name,
                 type |-> "SecurityRole", description |-> None, files |-> <<>>,
                 metadata |-> RoleMeta(node)])

(***************************************************************************)
(* Tables.                                                                 *)
(***************************************************************************)
EntityField(attr) ==
    LET fieldLogicalName == Or(attr.logicalName, attr.physicalName)
    IN  [name |-> fieldLogicalName,
         displayName |-> Or(attr.description, fieldLogicalName),
         type |-> Or(attr.type, <<"s", "t", "r", "i", "n", "g">>)]

\* the EntityMetadata built for an Entity node, before any relationship
EntityOf(node) ==
    [logicalName |-> node.name,
     displayName |-> Or(node.localizedName, node.name),
     relationships |-> <<>>,
     fields |-> Map(node.attributes, EntityField)]

\* Map.prototype.set on the insertion-ordered entity map
MapSet(map, entity) ==
    LET i == FindIndex(map, LAMBDA e : e.logicalName = entity.logicalName)
    IN  IF i # 0 THEN [map EXCEPT ![i] = entity] ELSE Append(map, entity)

\* components.find(c => c.logicalName === logicalName && c.type === 'Table')
TableTarget(comps, node) ==
    FindIndex(comps, LAMBDA c : c.logicalName = node.name /\ c.type = "Table")

TableMerge(comps, fs, node) ==
    LET existing == TableTarget(comps, node)
        entity == EntityOf(node)
    IN  IF existing # 0
        THEN [comps EXCEPT ![existing].displayName = entity.displayName,
                           ![existing].metadata = [fields |-> entity.fields]]
        ELSE Append(comps,
                [id |-> node.name, logicalName |-> node.name,
                 displayName |-> entity.displayName,
                 type |-> "Table", description |-> None,
                 files |-> PathsWhere(fs, LAMBDA f :
                              StartsWith(f.path, EntitiesPrefix \o node.name \o Slash)),
                 metadata |-> [fields |-> entity.fields]])

(***************************************************************************)
(* Relationships.                                                          *)
(***************************************************************************)
\* entityMap.get(name)?.relationships.push(relationship)
PushRelationship(map, name, relationship) ==
    LET i == FindIndex(map, LAMBDA e : e.logicalName = name)
    IN  IF i # 0 THEN [map EXCEPT ![i].relationships = Append(@, relationship)] ELSE map

RelationshipMerge(map, relNode) ==
    IF relNode.from # <<>> /\ relNode.to # <<>>
    THEN LET relationship == [name |-> relNode.name,
                              type |-> IF relNode.type # "" THEN relNode.type ELSE "OneToMany",
                              from |-> relNode.from, to |-> relNode.to]
         IN  PushRelationship(PushRelationship(map, relNode.from, relationship),
                              relNode.to, relationship)
    ELSE map

(***************************************************************************)
(* Model-driven apps (AppModules).                                         *)
(***************************************************************************)
ModelMeta(node) ==
    [uniqueName |-> node.uniqueName,
     displayName |-> Or(node.localizedName, node.uniqueName),
     version |-> Or(node.introducedVersion, <<"1", ".", "0", ".", "0", ".", "0">>),
     formFactor |-> Or(node.formFactor, <<"1">>),
     clientType |-> Or(node.clientType, <<"4">>),
     navigationType |-> Or(node.navigationType, <<"0">>),
     components |-> node.components,
     roles |-> node.roles,
     elements |-> node.elements,
     settings |-> node.settings]

\* components.find(c => c.logicalName === uniqueName && c.type === 'ModelApp')
ModelAppTarget(comps, node) ==
    FindIndex(comps, LAMBDA c : c.logicalName = node.uniqueName /\ c.type = "ModelApp")

ModelAppMerge(comps, fs, node) ==
    LET existing == ModelAppTarget(comps, node)
        modelMeta == ModelMeta(node)
    IN  IF existing # 0
        THEN [comps EXCEPT ![existing].displayName = modelMeta.displayName,
                           ![existing].metadata = modelMeta]
        ELSE Append(comps,
                [id |-> node.uniqueName, logicalName |-> node.uniqueName,
                 displayName |-> modelMeta.displayName,
                 type |-> "ModelApp", description |-> None,
                 files |-> PathsWhere(fs, LAMBDA f : Includes(f.path, node.uniqueName)),
                 metadata |-> modelMeta])

(***************************************************************************)
(* Cloud flows.                                                            *)
(***************************************************************************)
NormalizedFileName(fileName) ==
    IF StartsWith(fileName, Slash) THEN SubSeq(fileName, 2, Len(fileName)) ELSE fileName

\* components.find(c => c.id === logicalName)
FlowTarget(comps, node) ==
    FindIndex(comps, LAMBDA c : c.id = node.workflowId)

FlowMergeFileName(comps, fs, node) ==
    LET name == Or(node.name, UntitledFlow)
        logicalName == node.workflowId
        normalizedFileName == NormalizedFileName(node.fileName)
        existing == FlowTarget(comps, node)
    IN  IF existing # 0
        THEN [comps EXCEPT ![existing].displayName = name,
                           ![existing].files = ArrayFromSet(Append(@, normalizedFileName))]
        ELSE Append(comps,
                [id |-> logicalName, logicalName |-> logicalName, displayName |-> name,
                 type |-> "Flow", description |-> Some(node.description),
                 files |-> PathsWhere(fs, LAMBDA f : Includes(f.path, normalizedFileName)
                                                   \/ Includes(f.path, logicalName)),
                 metadata |-> Undefined])

FlowMerge(comps, fs, node) ==
    LET name == Or(node.name, UntitledFlow)
        logicalName == node.workflowId
        normalizedFileName == NormalizedFileName(node.fileName)
        existing == FlowTarget(comps, node)
    IN  IF existing # 0
        THEN [comps EXCEPT ![existing].displayName = name,
                           ![existing].files = ArrayFromSet(@ \o
                                PathsWhere(fs, LAMBDA f : Includes(f.path, normalizedFileName)))]
        ELSE Append(comps,
                [id |-> logicalName, logicalName |-> logicalName, displayName |-> name,
                 type |-> "Flow", description |-> Some(node.description),
                 files |-> PathsWhere(fs, LAMBDA f : Includes(f.path, normalizedFileName)
                                                   \/ Includes(f.path, logicalName)),
                 metadata |-> Undefined])

(***************************************************************************)
(* 4. Canvas apps.  The elements of the pass are the files under           *)
(* CanvasApps/ that end in .xml and have no underscore in their path.      *)
(***************************************************************************)
CanvasAppFiles(fs) ==
    SelectSeq(fs, LAMBDA f : StartsWith(f.path, CanvasPrefix) /\ EndsWith(f.path, XmlSuffix)
                             /\ ~Includes(f.path, Underscore))

\* the text of an element of the descriptor, '' when the document has none
CanvasText(f, field) ==
    IF f.content.kind = "canvasapp" THEN f.content[field] ELSE <<>>

\* JSON.parse on the texts the archives carry: the decoded value, Threw for
\* the SyntaxError of a text that does not decode
Quoted(s) == <<"QUOTE">> \o s \o <<"QUOTE">>

\* a text as it stands inside a JSON string literal
Escaped(s) ==
    LET esc[i \in 0..Len(s)] ==
            IF i = 0 THEN <<>>
            ELSE esc[i - 1] \o (IF s[i] = "QUOTE" THEN <<"BACKSLASH", "QUOTE">> ELSE <<s[i]>>)
    IN  esc[Len(s)]

Member(key, text) == Quoted(key) \o <<":">> \o text

Key_AppDescription == <<"A", "p", "p", "D", "e", "s", "c", "r", "i", "p", "t", "i", "o", "n">>
Key_ControlCount == <<"C", "o", "n", "t", "r", "o", "l", "C", "o", "u", "n", "t">>
Key_LocalDatabaseReferences ==
    <<"L", "o", "c", "a", "l", "D", "a", "t", "a", "b", "a", "s", "e",
      "R", "e", "f", "e", "r", "e", "n", "c", "e", "s">>
Key_dataSources == <<"d", "a", "t", "a", "S", "o", "u", "r", "c", "e", "s">>

DescriptionText == <<"D">>
DataSourceName == <<"S">>

\* ["T"]
TagsText == <<"[">> \o Quoted(<<"T">>) \o <<"]">>
\* {"dataSources":{"S":{}}}
LocalRefsText == <<"{">> \o Member(Key_dataSources, <<"{">> \o Member(DataSourceName, <<"{", "}">>) \o <<"}">>) \o <<"}">>
\* {"D":{"dataSources":{"S":{}}}}
DatabaseRefsText == <<"{">> \o Member(DescriptionText, LocalRefsText) \o <<"}">>
\* {"summary":"S"}
SummaryText ==
    <<"{">> \o Member(<<"s", "u", "m", "m", "a", "r", "y">>, Quoted(DataSourceName)) \o <<"}">>
\* {}
EmptyObjectText == <<"{", "}">>
\* a text cut short
TruncatedText == <<"{">>
NullText == <<"n", "u", "l", "l">>

\* the properties document of a nested package: AppDescription and
\* LocalDatabaseReferences are left out when empty
PropsText(desc, local) ==
    <<"{">>
    \o (IF desc # <<>> THEN Member(Key_AppDescription, Quoted(desc)) \o <<",">> ELSE <<>>)
    \o (IF local # <<>> THEN Member(Key_LocalDatabaseReferences, Quoted(Escaped(local))) \o <<",">>
        ELSE <<>>)
    \o Member(Key_ControlCount, <<"{">> \o Member(<<"B">>, <<"1">>) \o <<"}">>)
    \o <<"}">>

PropsValue(desc, local) ==
    [kind |-> "object", AppDescription |-> desc, LocalDatabaseReferences |-> local,
     ControlCount |-> [B |-> 1], DocumentLayoutWidth |-> Undefined,
     DocumentLayoutHeight |-> Undefined, DocumentLayoutOrientation |-> Undefined]

JsonTexts ==
    { <<TagsText, [kind |-> "array", items |-> <<(<<"T">>)>>]>>,
      <<LocalRefsText, [kind |-> "object", dataSources |-> <<DataSourceName>>]>>,
      <<DatabaseRefsText, [kind |-> "object", values |-> <<[dataSources |-> <<DataSourceName>>]>>]>>,
      <<SummaryText, [kind |-> "object", summary |-> DataSourceName]>>,
      <<EmptyObjectText, [kind |-> "object"]>>,
      <<NullText, Null>> }
    \cup { <<PropsText(desc, local), PropsValue(desc, local)>> :
           desc \in {<<>>, DescriptionText}, local \in {<<>>, LocalRefsText, TruncatedText} }

JsonParse(text) ==
    IF \E pair \in JsonTexts : pair[1] = text
    THEN (CHOOSE pair \in JsonTexts : pair[1] = text)[2]
    ELSE Threw

\* parseJsonSafely: undefined for a missing or empty element and for a text
\* that does not decode
ParseJsonSafely(f, selector) ==
    LET text == CanvasText(f, selector)
    IN  IF text = <<>> THEN Undefined
        ELSE IF JsonParse(text) = Threw THEN Undefined ELSE JsonParse(text)

\* Object.values(databaseReferences) and the keys of each ref.dataSources
DataSourcesOf(databaseReferences) ==
    IF databaseReferences \in {Undefined, Null} THEN Undefined
    ELSE IF "values" \in DOMAIN databaseReferences
         THEN [kind |-> "array",
               items |-> IF databaseReferences.values = <<>> THEN <<>>
                         ELSE databaseReferences.values[1].dataSources]
         ELSE [kind |-> "array", items |-> <<>>]

\* appMeta as built from the descriptor alone
AppMeta(f) ==
    LET appType == Or(CanvasText(f, "appType"), <<"0">>)
        databaseReferences == ParseJsonSafely(f, "databaseReferences")
    IN  [name |-> CanvasText(f, "name"),
         displayName |-> CanvasText(f, "displayName"),
         description |-> CanvasText(f, "description"),
         appId |-> CanvasText(f, "appId"),
         path |-> f.path,
         isPage |-> (appType = <<"1">>),
         tags |-> ParseJsonSafely(f, "tags"),
         databaseReferences |-> databaseReferences,
         canvasAppType |-> appType,
         dataSources |-> DataSourcesOf(databaseReferences),
         controlCount |-> Undefined,
         layout |-> Undefined]

\* files.find(file => file.path.startsWith('CanvasApps/') &&
\*            file.path.includes(name) && file.path.endsWith('.msapp'))
MsappFile(fs, name) ==
    FindIndex(fs, LAMBDA file : StartsWith(file.path, CanvasPrefix) /\ Includes(file.path, name)
                                /\ EndsWith(file.path, MsappSuffix))

\* zip.file(path).binaryContent: the bytes the collection step left on the entry
BinaryContentOf(z, path) ==
    LET i == FindIndex(z, LAMBDA entry : entry.name = path) IN z[i].data

\* JSZip.loadAsync(binary): the nested archive, Threw when the bytes are not
\* an archive
LoadAsync(binary) == IF binary.kind = "zip" THEN binary ELSE Threw

PropertiesJson == <<"P", "r", "o", "p", "e", "r", "t", "i", "e", "s", ".", "j", "s", "o", "n">>

\* the fields the properties document of the nested package adds to appMeta
WithProps(appMeta, props) ==
    LET local == props.LocalDatabaseReferences
        dbRefs == JsonParse(local)
    IN  [appMeta EXCEPT
            !.description = IF @ = <<>> THEN Or(props.AppDescription, <<>>) ELSE @,
            !.controlCount = props.ControlCount,
            !.layout = [width |-> props.DocumentLayoutWidth,
                        height |-> props.DocumentLayoutHeight,
                        orientation |-> props.DocumentLayoutOrientation],
            !.dataSources = IF @ = Undefined /\ local # <<>> /\ dbRefs \notin {Threw, Null}
                            THEN [kind |-> "array", items |-> dbRefs.dataSources]
                            ELSE @]

\* appMeta after the read of the nested package; Threw when an await or a
\* JSON.parse of the read throws
AppMetaOf(z, fs, f) ==
    LET appMeta == AppMeta(f)
        msappFile == MsappFile(fs, appMeta.name)
    IN  IF msappFile = 0 THEN appMeta
        ELSE LET msappZip == LoadAsync(BinaryContentOf(z, fs[msappFile].path))
             IN  IF msappZip = Threw THEN Threw
                 ELSE LET propsFile == FindIndex(msappZip.entries,
                                                  LAMBDA e : e.name = PropertiesJson)
                      IN  IF propsFile = 0 THEN appMeta
                          ELSE LET props == JsonParse(msappZip.entries[propsFile].text)
                               IN  IF props \in {Threw, Null} THEN Threw
                                   ELSE WithProps(appMeta, props)

\* components.find(c => c.logicalName === name || c.id === appId)
CanvasTarget(comps, f) ==
    FindIndex(comps, LAMBDA c : c.logicalName = CanvasText(f, "name")
                                \/ c.id = CanvasText(f, "appId"))

CanvasMerge(z, comps, fs, f) ==
    LET appMeta == AppMetaOf(z, fs, f)
        existing == CanvasTarget(comps, f)
    IN  IF existing # 0
        THEN [comps EXCEPT ![existing].type = "App",
                           ![existing].displayName = appMeta.displayName,
                           ![existing].metadata = appMeta]
        ELSE Append(comps,
                [id |-> Or(appMeta.appId, appMeta.name), logicalName |-> appMeta.name,
                 displayName |-> appMeta.displayName, type |-> "App",
                 description |-> Some(appMeta.description),
                 files |-> PathsWhere(fs, LAMBDA file : Includes(file.path, appMeta.name)),
                 metadata |-> appMeta])

(***************************************************************************)
(* Final deduplication by id: the first occurrence wins.                   *)
(***************************************************************************)
DedupByLogicalName(comps) ==
    LET keep == {i \in 1..Len(comps) :
                    FindIndex(comps, LAMBDA t : t.logicalName = comps[i].logicalName) = i}
        F[n \in 0..Len(comps)] ==
            IF n = 0 THEN <<>>
            ELSE IF n \in keep THEN Append(F[n - 1], comps[n]) ELSE F[n - 1]
    IN  F[Len(comps)]

Dedup(comps) ==
    LET keep == {i \in 1..Len(comps) : FindIndex(comps, LAMBDA t : t.id = comps[i].id) = i}
        F[n \in 0..Len(comps)] ==
            IF n = 0 THEN <<>>
            ELSE IF n \in keep THEN Append(F[n - 1], comps[n]) ELSE F[n - 1]
    IN  F[Len(comps)]

(***************************************************************************)
(* The passes of parseSolutionZip as folds of the merge steps, and the     *)
(* whole function.                                                         *)
(***************************************************************************)
Passes == <<"root", "roles", "tables", "relationships", "modelApps", "flows", "canvas">>

\* the elements the pass iterates over
ElementsOf(pass, fs) ==
    CASE pass = "root" -> RootComponentsOf(fs)
      [] pass = "roles" -> CustomizationsOf(fs).roles
      [] pass = "tables" -> CustomizationsOf(fs).entities
      [] pass = "relationships" -> CustomizationsOf(fs).relationships
      [] pass = "modelApps" -> CustomizationsOf(fs).appModules
      [] pass = "flows" -> CustomizationsOf(fs).workflows
      [] pass = "canvas" -> CanvasAppFiles(fs)

\* one iteration of the pass on the component list
MergeStep(z, pass, comps, fs, node) ==
    CASE pass = "root" -> RootMerge(comps, fs, node)
      [] pass = "roles" -> RoleMerge(comps, fs, node)
      [] pass = "tables" -> TableMerge(comps, fs, node)
      [] pass = "relationships" -> comps
      [] pass = "modelApps" -> ModelAppMerge(comps, fs, node)
      [] pass = "flows" -> FlowMerge(comps, fs, node)
      [] pass = "canvas" -> CanvasMerge(z, comps, fs, node)

\* one iteration of the pass on the entity map
EntityStep(pass, map, node) ==
    CASE pass = "tables" -> MapSet(map, EntityOf(node))
      [] pass = "relationships" -> RelationshipMerge(map, node)
      [] OTHER -> map

\* one iteration of the pass on the canvas app list
CanvasStep(z, fs, pass, list, node) ==
    IF pass = "canvas" THEN Append(list, AppMetaOf(z, fs, node)) ELSE list

RECURSIVE RunPass(_, _, _, _, _)
RunPass(z, pass, comps, fs, n) ==
    IF n = 0 THEN comps
    ELSE MergeStep(z, pass, RunPass(z, pass, comps, fs, n - 1), fs, ElementsOf(pass, fs)[n])

RECURSIVE RunPasses(_, _, _, _)
RunPasses(z, order, comps, fs) ==
    IF order = <<>> THEN comps
    ELSE RunPasses(z, Tail(order),
                   RunPass(z, Head(order), comps, fs, Len(ElementsOf(Head(order), fs))), fs)

RECURSIVE RunEntityPass(_, _, _, _)
RunEntityPass(pass, map, fs, n) ==
    IF n = 0 THEN map
    ELSE EntityStep(pass, RunEntityPass(pass, map, fs, n - 1), ElementsOf(pass, fs)[n])

\* the value parseSolutionZip resolves to when the file collection of the
\* archive z is fs
ParseResult(z, fs) ==
    [files |-> fs,
     metadata |->
        [components |-> Dedup(RunPasses(z, Passes, <<>>, fs)),
         entities |-> RunEntityPass("relationships",
                          RunEntityPass("tables", <<>>, fs, Len(ElementsOf("tables", fs))),
                          fs, Len(ElementsOf("relationships", fs))),
         canvasApps |-> Map(CanvasAppFiles(fs), LAMBDA f : AppMetaOf(z, fs, f))]]

(***************************************************************************)
(* The archives the model ingests.                                         *)
(***************************************************************************)
P == <<"P">>
Q == <<"Q">>
R == <<"R">>
N == <<"N">>
T == <<"T">>

RootElems ==
    { [type |-> "1", id |-> <<>>, schemaName |-> Q],
      [type |-> "1", id |-> P, schemaName |-> Q],
      [type |-> "1", id |-> P, schemaName |-> <<>>],
      [type |-> "20", id |-> P, schemaName |-> <<>>] }

PrvReadP == [name |-> Prv \o <<"R", "e", "a", "d">> \o P, privilegeid |-> <<>>,
             level |-> <<"L">>, depth |-> <<>>]

RoleElems ==
    { [id |-> P, name |-> <<>>, ismanaged |-> <<"1">>, privileges |-> <<PrvReadP>>],
      [id |-> P, name |-> Q, ismanaged |-> <<>>, privileges |-> <<>>],
      [id |-> <<>>, name |-> Q, ismanaged |-> <<>>, privileges |-> <<>>] }

FieldT == [logicalName |-> <<>>, physicalName |-> T, description |-> <<>>, type |-> <<>>]

EntityElems ==
    { [name |-> P, localizedName |-> <<>>, attributes |-> <<>>],
      [name |-> Q, localizedName |-> T, attributes |-> <<FieldT>>] }

AppModule(uniqueName) ==
    [uniqueName |-> uniqueName, localizedName |-> <<>>, introducedVersion |-> <<>>,
     formFactor |-> <<>>, clientType |-> <<>>, navigationType |-> <<>>,
     components |-> <<>>, roles |-> <<>>, elements |-> <<>>, settings |-> <<>>]

AppModuleElems == {AppModule(P), AppModule(Q)}

WorkflowElems ==
    { [name |-> <<>>, workflowId |-> P, fileName |-> <<"/", "W">>, description |-> <<>>],
      [name |-> Q, workflowId |-> <<>>, fileName |-> Slash \o SolutionPath, description |-> T] }

CanvasDoc(name, appId, displayName, appType) ==
    [kind |-> "canvasapp", name |-> name, appId |-> appId, displayName |-> displayName,
     appType |-> appType, description |-> <<>>, tags |-> <<>>, databaseReferences |-> <<>>]

\* the app descriptors an archive can carry, each at its own path
CanvasElems ==
    { [name |-> CanvasPrefix \o Q \o XmlSuffix, dir |-> FALSE,
       data |-> CanvasDoc(Q, P, <<>>, <<"1">>)],
      [name |-> CanvasPrefix \o P \o XmlSuffix, dir |-> FALSE,
       data |-> CanvasDoc(P, <<>>, Q, <<>>)] }

\* the subsets of S with at most n elements, each as a sequence in a fixed order
RECURSIVE SetToSeq(_)
SetToSeq(S) ==
    IF S = {} THEN <<>>
    ELSE LET x == CHOOSE y \in S : TRUE IN <<x>> \o SetToSeq(S \ {x})

SubsetSeqs(S, n) == {SetToSeq(X) : X \in {Y \in SUBSET S : Cardinality(Y) <= n}}

\* the manifests with at most n elements in total
Manifests(n) ==
    UNION { UNION { UNION { UNION { UNION {
        { [roots |-> ro, roles |-> rl, entities |-> en, relationships |-> <<>>,
           appModules |-> am, workflows |-> wf, canvas |-> cv] :
          cv \in SubsetSeqs(CanvasElems, n - Len(ro) - Len(rl) - Len(en) - Len(am) - Len(wf)) }
        : wf \in SeqsUpTo(WorkflowElems, n - Len(ro) - Len(rl) - Len(en) - Len(am)) }
        : am \in SeqsUpTo(AppModuleElems, n - Len(ro) - Len(rl) - Len(en)) }
        : en \in SeqsUpTo(EntityElems, n - Len(ro) - Len(rl)) }
        : rl \in SeqsUpTo(RoleElems, n - Len(ro)) }
        : ro \in SeqsUpTo(RootElems, n) }

Entity(name) == [name |-> name, localizedName |-> <<>>, attributes |-> <<>>]

Rel(name, from, to) == [name |-> name, type |-> "", from |-> from, to |-> to]

RelElems ==
    { Rel(N, P, Q), Rel(N, Q, P), Rel(N, P, P), Rel(R, P, Q), Rel(Q, P, R),
      Rel(N, P, <<>>), Rel(N, P, T) }

\* the manifests that declare entities and relationships between them
RelManifests ==
    { [roots |-> <<>>, roles |-> <<>>, entities |-> en, relationships |-> re,
       appModules |-> <<>>, workflows |-> <<>>, canvas |-> <<>>] :
      en \in {<<Entity(P)>>, <<Entity(P), Entity(Q)>>, <<Entity(P), Entity(Q), Entity(R)>>},
      re \in SeqsUpTo(RelElems, MaxRels) }

\* the archive of a manifest: a descriptor is stored only when it has elements
ZipOf(m) ==
    (IF m.roots # <<>>
     THEN <<[name |-> SolutionPath, dir |-> FALSE,
             data |-> [kind |-> "solution", roots |-> m.roots]]>>
     ELSE <<>>)
    \o (IF m.roles # <<>> \/ m.entities # <<>> \/ m.relationships # <<>>
           \/ m.appModules # <<>> \/ m.workflows # <<>>
        THEN <<[name |-> CustomizationsPath, dir |-> FALSE,
                data |-> [kind |-> "customizations", roles |-> m.roles,
                          entities |-> m.entities, relationships |-> m.relationships,
                          appModules |-> m.appModules, workflows |-> m.workflows]]>>
        ELSE <<>>)
    \o (IF m.canvas # <<>>
        THEN <<[name |-> CanvasPrefix, dir |-> TRUE, data |-> [kind |-> "bytes", bytes |-> <<>>]]>>
             \o m.canvas
        ELSE <<>>)

\* the RolePrivilege elements of the role whose privileges are decomposed
PrivilegeNames ==
    { Prv \o <<"R", "e", "a", "d">> \o P,
      Prv \o <<"A", "p", "p", "e", "n", "d", "T", "o">> \o P,
      Prv \o <<"A", "p", "p", "e", "n", "d">> \o P,
      Prv \o <<"A", "p", "p", "e", "n", "d", "T", "o">>,
      Prv \o <<"R", "e", "a", "d">>,
      Prv \o <<"R", "e", "a", "d", "LF">> \o P,
      Prv \o <<"r", "e", "a", "d">> \o P,
      Prv \o P,
      Prv,
      P,
      <<>> }

PrivilegeManifests ==
    { [roots |-> <<>>,
       roles |-> <<[id |-> P, name |-> Q, ismanaged |-> <<>>,
                    privileges |-> Map(names, LAMBDA n : [name |-> n, privilegeid |-> <<>>,
                                                          level |-> <<"L">>, depth |-> <<>>])]>>,
       entities |-> <<>>, relationships |-> <<>>, appModules |-> <<>>, workflows |-> <<>>,
       canvas |-> <<>>]
      : names \in SeqsUpTo(PrivilegeNames, MaxPrivileges) \ {<<>>} }

\* an entry whose extraction fails: its stored data cannot be inflated
CorruptEntry == [name |-> R \o XmlSuffix, dir |-> FALSE, data |-> [kind |-> "corrupt"]]

\* archives that open and hold one entry whose extraction fails
CorruptZips == {ZipOf(m) \o <<CorruptEntry>> : m \in Manifests(1)}

\* bytes that are not an archive
NotAnArchive == [kind |-> "bytes", bytes |-> <<80>>]

\* the nested packages an .msapp entry can hold: bytes that are not an
\* archive, an archive without a properties document, and archives whose
\* properties document is cut short, is null, or decodes to an object
Packages ==
    {NotAnArchive, [kind |-> "zip", entries |-> <<>>]}
    \cup { [kind |-> "zip", entries |-> <<[name |-> PropertiesJson, text |-> text]>>] :
           text \in {TruncatedText, NullText}
                    \cup {PropsText(desc, local) : desc \in {<<>>, DescriptionText},
                                                   local \in {<<>>, LocalRefsText, TruncatedText}} }

\* descriptors of the app Q: bare, with every optional element, and with
\* embedded JSON that is cut short
PackagedDocs ==
    { [CanvasDoc(Q, P, <<>>, <<"1">>) EXCEPT !.description = fields[1], !.tags = fields[2],
                                            !.databaseReferences = fields[3]] :
      fields \in { <<(<<>>), <<>>, <<>>>>,
                   <<DescriptionText, TagsText, DatabaseRefsText>>,
                   <<(<<>>), TruncatedText, TruncatedText>> } }

\* archives that hold a descriptor and the nested package of its app
PackageZips ==
    { <<[name |-> CanvasPrefix \o Q \o XmlSuffix, dir |-> FALSE, data |-> doc],
        [name |-> CanvasPrefix \o Q \o MsappSuffix, dir |-> FALSE, data |-> package]>> :
      doc \in PackagedDocs, package \in Packages }

\* the descriptor of the app Q in a file named with a publisher prefix
PrefixedCanvasElem ==
    [name |-> CanvasPrefix \o P \o Underscore \o Q \o XmlSuffix, dir |-> FALSE,
     data |-> CanvasDoc(Q, P, <<>>, <<"1">>)]

\* archives that hold it, alone or after other descriptors
PrefixedCanvasZips ==
    {ZipOf([roots |-> <<>>, roles |-> <<>>, entities |-> <<>>, relationships |-> <<>>,
            appModules |-> <<>>, workflows |-> <<>>, canvas |-> cv]) \o <<PrefixedCanvasElem>> :
     cv \in SubsetSeqs(CanvasElems, 1)}

ParseZips ==
    {ZipOf(m) : m \in Manifests(MaxElements) \cup RelManifests \cup PrivilegeManifests}
    \cup CorruptZips \cup PackageZips \cup PrefixedCanvasZips

(***************************************************************************)
(* The state of the components before any upload, selection or call of the *)
(* oracle.                                                                 *)
(***************************************************************************)
\* the ids of the steps a flow definition shows
StepIds == {"step1", "step2"}

ViewInit ==
    /\ isLoading = FALSE
    /\ alerts = 0
    /\ uploading = {}
    /\ operation = "none"
    /\ callState = "idle"
    /\ retries = 0
    /\ delay = 0
    /\ attempts = <<>>
    /\ waits = <<>>
    /\ outcome = Null
    /\ chatHistory = <<>>
    /\ isChatLoading = FALSE
    /\ isQuotaExhausted = FALSE
    /\ selectedFileDiff = Null
    /\ diffView = [analysis |-> Null, isAnalyzing |-> FALSE]
    /\ diffRequests = <<>>
    /\ definition = 1
    /\ flowVisualizer = [selectedStep |-> Null, analysis |-> Null, isAnalyzing |-> FALSE,
                         analysisCache |-> [id \in StepIds |-> Undefined]]
    /\ flowRequests = <<>>

(***************************************************************************)
(* parseSolutionZip, step by step.                                         *)
(***************************************************************************)
\* the first pass from position k of Passes on that has an element, "finish"
\* when there is none
PassFrom(k, fs) ==
    LET later == {j \in k..Len(Passes) : ElementsOf(Passes[j], fs) # <<>>}
    IN  IF later = {} THEN "finish" ELSE Passes[CHOOSE j \in later : \A i \in later : j <= i]

PassIndex(pass) == CHOOSE k \in 1..Len(Passes) : Passes[k] = pass

InitParse ==
    /\ zip \in ParseZips
    /\ pending = {i \in 1..Len(zip) : ~zip[i].dir}
    /\ files = <<>>
    /\ components = <<>>
    /\ entityMap = <<>>
    /\ canvasAppMetadataList = <<>>
    /\ metadata = [components |-> <<>>, entities |-> <<>>, canvasApps |-> <<>>]
    /\ pc = "collect"
    /\ idx = 1
    /\ appMode = "home"
    /\ baseSolution = Null
    /\ targetSolution = Null
    /\ baseFile = <<>>
    /\ targetFile = <<>>
    /\ ViewInit

\* the promise of one entry resolves: its .then callback pushes the file.  The
\* callbacks of the other entries still run after a rejection
ExtractEntry(i) ==
    /\ pc \in {"collect", "rejected"}
    /\ i \in pending
    /\ zip[i].data.kind # "corrupt"
    /\ files' = Append(files, MakeFile(zip[i]))
    /\ pending' = pending \ {i}
    /\ UNCHANGED <<zip, components, entityMap, canvasAppMetadataList, metadata, pc, idx, appVars, viewVars>>

\* the promise of one entry rejects: Promise.all rejects, the await throws
\* and the promise of parseSolutionZip rejects
RejectEntry(i) ==
    /\ pc \in {"collect", "rejected"}
    /\ i \in pending
    /\ zip[i].data.kind = "corrupt"
    /\ pending' = pending \ {i}
    /\ pc' = "rejected"
    /\ UNCHANGED <<zip, files, components, entityMap, canvasAppMetadataList, metadata, idx,
                   appVars, viewVars>>

AwaitAny ==
    /\ pc = "collect"
    /\ pc' = PassFrom(1, files)
    /\ idx' = 1
    /\ UNCHANGED <<zip, pending, files, components, entityMap, canvasAppMetadataList,
                   metadata, appVars, viewVars>>

\* await Promise.all(filePromises) returns
AwaitAll ==
    /\ pc = "collect"
    /\ pending = {}
    /\ pc' = PassFrom(1, files)
    /\ idx' = 1
    /\ UNCHANGED <<zip, pending, files, components, entityMap, canvasAppMetadataList,
                   metadata, appVars, viewVars>>

\* the iteration throws: an await of the nested package read rejects or its
\* JSON.parse throws outside a try
StepThrows(z, pass, fs, node) == pass = "canvas" /\ AppMetaOf(z, fs, node) = Threw

\* one iteration of the forEach / for loop of the pass; an iteration that
\* throws rejects the promise of parseSolutionZip
Step(pass) ==
    /\ pc = pass
    /\ idx <= Len(ElementsOf(pass, files))
    /\ LET node == ElementsOf(pass, files)[idx]
       IN  IF StepThrows(zip, pass, files, node)
           THEN /\ pc' = "rejected"
                /\ UNCHANGED <<components, entityMap, canvasAppMetadataList, idx>>
           ELSE /\ components' = MergeStep(zip, pass, components, files, node)
                /\ entityMap' = EntityStep(pass, entityMap, node)
                /\ canvasAppMetadataList' =
                        CanvasStep(zip, files, pass, canvasAppMetadataList, node)
                /\ IF idx < Len(ElementsOf(pass, files))
                   THEN idx' = idx + 1 /\ pc' = pc
                   ELSE idx' = 1 /\ pc' = PassFrom(PassIndex(pass) + 1, files)
    /\ UNCHANGED <<zip, pending, files, metadata, appVars, viewVars>>

RootComponentStep == Step("root")
RoleStep == Step("roles")
TableStep == Step("tables")
RelationshipStep == Step("relationships")
ModelAppStep == Step("modelApps")
FlowStep == Step("flows")
CanvasAppStep == Step("canvas")

\* the final dedup and the assembly of the returned metadata
Finish ==
    /\ pc = "finish"
    /\ metadata' = [components |-> Dedup(components), entities |-> entityMap,
                    canvasApps |-> canvasAppMetadataList]
    /\ pc' = "done"
    /\ UNCHANGED <<zip, pending, files, components, entityMap, canvasAppMetadataList,
                   idx, appVars, viewVars>>

NextParse ==
    \/ \E i \in 1..Len(zip) : ExtractEntry(i)
    \/ \E i \in 1..Len(zip) : RejectEntry(i)
    \/ AwaitAll
    \/ RootComponentStep
    \/ RoleStep
    \/ TableStep
    \/ RelationshipStep
    \/ ModelAppStep
    \/ FlowStep
    \/ CanvasAppStep
    \/ Finish

Spec == InitParse /\ [][NextParse]_vars

(***************************************************************************)
(* The relationship aggregate of the schema visualizer.                    *)
(***************************************************************************)
\* the printable ASCII characters, from code 32 on (the double quote, the
\* backslash and the backtick, which no string of the model contains, are
\* spelled out)
Ascii ==
    <<" ", "!", "QUOTE", "#", "$", "%", "&", "'", "(", ")", "*", "+", ",", "-", ".", "/",
      "0", "1", "2", "3", "4", "5", "6", "7", "8", "9", ":", ";", "<", "=", ">", "?",
      "@", "A", "B", "C", "D", "E", "F", "G", "H", "I", "J", "K", "L", "M", "N", "O",
      "P", "Q", "R", "S", "T", "U", "V", "W", "X", "Y", "Z", "[", "BACKSLASH", "]", "^", "_",
      "BACKTICK", "a", "b", "c", "d", "e", "f", "g", "h", "i", "j", "k", "l", "m", "n", "o",
      "p", "q", "r", "s", "t", "u", "v", "w", "x", "y", "z", "{", "|", "}", "~">>

\* String.prototype.charCodeAt
CharCode(c) == 31 + (CHOOSE k \in 1..Len(Ascii) : Ascii[k] = c)

\* a < b on strings: by UTF-16 code units, a proper prefix first
StringLess(a, b) ==
    \E k \in 1..(Len(b)) :
        /\ \A j \in 1..(k - 1) : j <= Len(a) /\ a[j] = b[j]
        /\ k - 1 <= Len(a)
        /\ (k > Len(a) \/ CharCode(a[k]) < CharCode(b[k]))

\* a stable sort of seq by the strict order Less
SortBy(seq, Less(_, _)) ==
    LET F[n \in 0..Len(seq)] ==
            IF n = 0 THEN <<>>
            ELSE LET front == F[n - 1]
                     x == seq[n]
                     at == Cardinality({i \in 1..Len(front) : ~Less(x, front[i])})
                 IN  SubSeq(front, 1, at) \o <<x>> \o SubSeq(front, at + 1, Len(front))
    IN  F[Len(seq)]

\* Array.prototype.join
RECURSIVE Join(_, _)
Join(seq, sep) ==
    IF seq = <<>> THEN <<>>
    ELSE IF Len(seq) = 1 THEN seq[1]
    ELSE seq[1] \o sep \o Join(Tail(seq), sep)

\* [rel.from, rel.to, rel.name].sort().join('-')
RelKey(rel) == Join(SortBy(<<rel.from, rel.to, rel.name>>, StringLess), <<"-">>)

\* every relationship of every entity, in iteration order
RECURSIVE Attached(_)
Attached(entities) ==
    IF entities = <<>> THEN <<>>
    ELSE entities[1].relationships \o Attached(Tail(entities))

\* allRelationships: the attached relationships whose two ends are laid out,
\* the first of each key
AllRelationships(entities) ==
    LET laidOut == {entities[i].logicalName : i \in 1..Len(entities)}
        drawn == SelectSeq(Attached(entities), LAMBDA rel : rel.from \in laidOut /\ rel.to \in laidOut)
        F[n \in 0..Len(drawn)] ==
            IF n = 0 THEN <<>>
            ELSE IF \E i \in 1..Len(F[n - 1]) : RelKey(F[n - 1][i]) = RelKey(drawn[n])
                 THEN F[n - 1]
                 ELSE Append(F[n - 1], drawn[n])
    IN  F[Len(drawn)]

(***************************************************************************)
(* Properties of the ingestion.                                            *)
(***************************************************************************)
IdsUnique(comps) ==
    \A i, j \in 1..Len(comps) : comps[i].id = comps[j].id => i = j

\* C1: once parseSolutionZip has finished, no two components of
\* metadata.components have the same id.
C1_UniqueIds == pc = "done" => IdsUnique(metadata.components)

\* a bundle whose passes pushed two components with one id, after the return
C1_Witness ==
    /\ pc = "done"
    /\ ~IdsUnique(components)
    /\ Len(metadata.components) >= 2

PathsOf(fs) == {fs[i].path : i \in 1..Len(fs)}

\* C2: in every state of the ingestion, and in the returned metadata, every
\* path in a component's files is the path of a file of the bundle.
C2_FilesSubset ==
    /\ \A i \in 1..Len(components) : Range(components[i].files) \subseteq PathsOf(files)
    /\ \A i \in 1..Len(metadata.components) :
          Range(metadata.components[i].files) \subseteq PathsOf(files)

\* a flow was merged into a component that was seeded first and owns files
C2_Witness ==
    /\ pc = "done"
    /\ \E i \in 1..Len(metadata.components) :
          /\ metadata.components[i].files # <<>>
          /\ metadata.components[i].displayName = UntitledFlow
          /\ metadata.components[i].type # "Flow"

\* the contributions of the customization descriptor and of the app descriptors
ContributionPasses == <<"roles", "tables", "modelApps", "flows", "canvas">>

NoDuplicate(seq) == \A i, j \in 1..Len(seq) : seq[i] = seq[j] => i = j

\* C3: applying the contributions of the roles, tables, model apps, flows and
\* canvas apps a second time leaves components[] the same by value (ignoring
\* order) and duplicates no entry of any files list.
C3_Idempotent ==
    pc = "done" =>
        LET again == Dedup(RunPasses(zip, ContributionPasses, components, files))
        IN  /\ Range(again) = Range(metadata.components)
            /\ Len(again) = Len(metadata.components)
            /\ \A i \in 1..Len(again) : NoDuplicate(again[i].files)

\* the orders the six component passes can be applied in
RECURSIVE OrdersOf(_)
OrdersOf(S) ==
    IF S = {} THEN {<<>>}
    ELSE UNION {{<<x>> \o rest : rest \in OrdersOf(S \ {x})} : x \in S}

PassOrders == OrdersOf({"root", "roles", "tables", "modelApps", "flows", "canvas"})

\* a component list by value, ignoring the order of the list and of each files
ByValue(comps) == {[comps[i] EXCEPT !.files = Range(@)] : i \in 1..Len(comps)}

\* C4: the final components[] is the same by value whatever the relative
\* order the parser passes are applied in.
C4_Commutative ==
    pc = "done" =>
        \A order \in PassOrders :
            ByValue(Dedup(RunPasses(zip, order, <<>>, files))) = ByValue(metadata.components)

\* the id the pass looks the partial record up by
IncomingId(pass, node) ==
    CASE pass = "tables" -> node.name
      [] pass = "modelApps" -> node.uniqueName
      [] pass = "canvas" -> CanvasText(node, "appId")

\* the component the pass merges the record into (0: a new one is pushed)
MergeTarget(pass, comps, node) ==
    CASE pass = "tables" -> TableTarget(comps, node)
      [] pass = "modelApps" -> ModelAppTarget(comps, node)
      [] pass = "canvas" -> CanvasTarget(comps, node)

\* C5: when a table, model app or canvas app record is merged into an
\* existing component and some component has the record's (non-empty) id, the merge
\* target is a component with that id, not one that matches by logicalName
\* only.
C5_IdMatchFirst ==
    \A pass \in {"tables", "modelApps", "canvas"} :
        (pc = pass /\ idx <= Len(ElementsOf(pass, files))) =>
            LET node == ElementsOf(pass, files)[idx]
                target == MergeTarget(pass, components, node)
            IN  (target # 0
                 /\ IncomingId(pass, node) # <<>>
                 /\ \E i \in 1..Len(components) : components[i].id = IncomingId(pass, node))
                    => components[target].id = IncomingId(pass, node)

\* C6: no step of the ingestion replaces a non-empty displayName of an
\* existing component by the empty string.
C6_NoEmptyOverwrite ==
    [][\A i \in 1..Len(components) :
          (i <= Len(components') /\ components[i].displayName # <<>>)
              => components'[i].displayName # <<>>]_vars

\* the edges of the aggregate that stand for the relationship element: same
\* name, same unordered pair of entities
EdgesOf(relNode, all) ==
    {i \in 1..Len(all) : all[i].name = relNode.name
                         /\ {all[i].from, all[i].to} = {relNode.from, relNode.to}}

\* C7: a relationship element attached to the lists of both its entities
\* yields exactly one edge in the aggregate relationship set, also when the
\* two entities are the same.
C7_OneEdge ==
    pc = "done" =>
        LET known == {metadata.entities[i].logicalName : i \in 1..Len(metadata.entities)}
            all == AllRelationships(metadata.entities)
            rels == ElementsOf("relationships", files)
        IN  \A k \in 1..Len(rels) :
                (rels[k].from \in known /\ rels[k].to \in known)
                    => Cardinality(EdgesOf(rels[k], all)) = 1

(***************************************************************************)
(* The structural diff of App.tsx (solutionDiff) and the uploads that      *)
(* feed it.                                                                *)
(***************************************************************************)
\* the keys of new Map(seq.map(x => [Key(x), x])), in insertion order
MapKeys(seq, Key(_)) == ArrayFromSet(Map(seq, Key))

\* Map.prototype.get: the last element stored under the key, undefined when
\* there is none
MapGet(seq, Key(_), k) ==
    LET at == {i \in 1..Len(seq) : Key(seq[i]) = k}
    IN  IF at = {} THEN Undefined ELSE seq[CHOOSE i \in at : \A j \in at : j <= i]

\* Array.from(map.values())
MapValues(seq, Key(_)) == Map(MapKeys(seq, Key), LAMBDA k : MapGet(seq, Key, k))

\* the primary order of the collation localeCompare applies: punctuation,
\* then digits, then letters, a letter and its capital at the same rank
CollationOrder ==
    <<" ", "_", "-", ",", ";", ":", "!", "?", ".", "'", "QUOTE", "(", ")", "[", "]",
      "{", "}", "@", "*", "/", "BACKSLASH", "&", "#", "%", "BACKTICK", "^", "+", "<",
      "=", ">", "|", "~", "$", "0", "1", "2", "3", "4", "5", "6", "7", "8", "9">>
    \o LowerCase

PrimaryRank(c) == CHOOSE k \in 1..Len(CollationOrder) : CollationOrder[k] = LowerChar(c)

\* a.localeCompare(b) < 0: by primary rank over the whole string, a proper
\* prefix first; strings equal at the primary level are ordered by the first
\* character whose case differs, the lower-case one first
LocaleLess(a, b) ==
    LET PrimaryLess ==
            \E k \in 1..Len(b) :
                /\ k - 1 <= Len(a)
                /\ \A j \in 1..(k - 1) : PrimaryRank(a[j]) = PrimaryRank(b[j])
                /\ (k > Len(a) \/ PrimaryRank(a[k]) < PrimaryRank(b[k]))
        PrimaryEqual ==
            Len(a) = Len(b) /\ \A j \in 1..Len(a) : PrimaryRank(a[j]) = PrimaryRank(b[j])
    IN  \/ PrimaryLess
        \/ /\ PrimaryEqual
           /\ \E k \in 1..Len(a) :
                /\ \A j \in 1..(k - 1) : a[j] = b[j]
                /\ a[k] # b[k]
                /\ a[k] = LowerChar(a[k])

FileAt(solution, path) == MapGet(solution.files, LAMBDA f : f.path, path)

StatusOfAnyPair(base, target, path) ==
    LET b == FileAt(base, path)
        t == FileAt(target, path)
    IN  IF b = Undefined /\ t # Undefined THEN "added"
        ELSE IF b # Undefined /\ t = Undefined THEN "removed"
        ELSE IF b # Undefined /\ t # Undefined THEN "modified"
        ELSE "unchanged"

\* the status of a path of the union
StatusOf(base, target, path) ==
    LET b == FileAt(base, path)
        t == FileAt(target, path)
    IN  IF b = Undefined /\ t # Undefined THEN "added"
        ELSE IF b # Undefined /\ t = Undefined THEN "removed"
        ELSE IF b # Undefined /\ t # Undefined /\ b.content # t.content THEN "modified"
        ELSE "unchanged"

\* Array.from(comps.values()).find(c => c.files.includes(path))
OwningComponentById(solution, path) ==
    LET values == MapValues(solution.metadata.components, LAMBDA c : c.id)
        i == FindIndex(values, LAMBDA c : Includes(path, c.id))
    IN  IF i = 0 THEN Undefined ELSE values[i]

OwningComponent(solution, path) ==
    LET values == MapValues(solution.metadata.components, LAMBDA c : c.id)
        i == FindIndex(values, LAMBDA c : path \in Range(c.files))
    IN  IF i = 0 THEN Undefined ELSE values[i]

TypeOf(comp) == IF comp = Undefined THEN "undefined" ELSE comp.type

MetadataOf(comp) == IF comp = Undefined THEN Undefined ELSE comp.metadata

\* comp.metadata?.fields || []
FieldsOf(comp) ==
    IF "fields" \in DOMAIN comp.metadata THEN comp.metadata.fields ELSE <<>>

\* reading .privileges of an undefined metadata is a TypeError
PrivilegesThrow(comp) == comp.metadata = Undefined

\* (comp.metadata as SecurityRoleMetadata).privileges || []
PrivilegesOf(comp) ==
    IF "privileges" \in DOMAIN comp.metadata THEN comp.metadata.privileges ELSE <<>>

NamedIn(list, name) == \E i \in 1..Len(list) : list[i].name = name

\* the first element of the list with the name
NamedAt(list, name) == list[FindIndex(list, LAMBDA x : x.name = name)]

LogicalDiffByValue(baseComp, targetComp) ==
    IF TypeOf(baseComp) = "Table" /\ TypeOf(targetComp) = "Table"
    THEN LET oldFields == FieldsOf(baseComp)
             newFields == FieldsOf(targetComp)
         IN  [type |-> "Table",
              added |-> SelectSeq(newFields, LAMBDA nf : nf \notin Range(oldFields)),
              removed |-> SelectSeq(oldFields, LAMBDA of : of \notin Range(newFields))]
    ELSE Undefined

LogicalDiffOf(baseComp, targetComp) ==
    IF TypeOf(baseComp) = "Table" /\ TypeOf(targetComp) = "Table"
    THEN LET oldFields == FieldsOf(baseComp)
             newFields == FieldsOf(targetComp)
         IN  [type |-> "Table",
              added |-> SelectSeq(newFields, LAMBDA nf : ~NamedIn(oldFields, nf.name)),
              removed |-> SelectSeq(oldFields, LAMBDA of : ~NamedIn(newFields, of.name))]
    ELSE IF TypeOf(baseComp) = "SecurityRole" /\ TypeOf(targetComp) = "SecurityRole"
    THEN LET oldPrivs == PrivilegesOf(baseComp)
             newPrivs == PrivilegesOf(targetComp)
         IN  [type |-> "SecurityRole",
              added |-> SelectSeq(newPrivs, LAMBDA np : ~NamedIn(oldPrivs, np.name)),
              removed |-> SelectSeq(oldPrivs, LAMBDA op : ~NamedIn(newPrivs, op.name)),
              modified |->
                 Map(SelectSeq(newPrivs, LAMBDA np :
                        /\ NamedIn(oldPrivs, np.name)
                        /\ (NamedAt(oldPrivs, np.name).level # np.level
                            \/ NamedAt(oldPrivs, np.name).depth # np.depth)),
                     LAMBDA np : [name |-> np.name, old |-> NamedAt(oldPrivs, np.name),
                                  new |-> np])]
    ELSE Undefined

\* the FileDiff pushed for a path whose status is not unchanged
FileDiffOf(base, target, path) ==
    LET b == FileAt(base, path)
        t == FileAt(target, path)
        file == IF t # Undefined THEN t ELSE b
        baseComp == OwningComponent(base, path)
        targetComp == OwningComponent(target, path)
    IN  [path |-> path,
         name |-> file.name,
         status |-> StatusOf(base, target, path),
         oldContent |-> IF b = Undefined THEN Undefined ELSE b.content,
         newContent |-> IF t = Undefined THEN Undefined ELSE t.content,
         type |-> file.type,
         logicalDiff |-> LogicalDiffOf(baseComp, targetComp),
         oldMetadata |-> MetadataOf(baseComp),
         newMetadata |-> MetadataOf(targetComp)]

AllPathsConcat(base, target) ==
    MapKeys(base.files, LAMBDA f : f.path) \o MapKeys(target.files, LAMBDA f : f.path)

\* Array.from(new Set([...baseFiles.keys(), ...targetFiles.keys()]))
AllPaths(base, target) ==
    ArrayFromSet(MapKeys(base.files, LAMBDA f : f.path) \o MapKeys(target.files, LAMBDA f : f.path))

ChangedPaths(base, target) ==
    SelectSeq(AllPaths(base, target), LAMBDA path : StatusOf(base, target, path) # "unchanged")

\* the memo throws when a changed path is owned by a SecurityRole component
\* on both sides and one of them has no metadata
DiffThrows(base, target) ==
    \E i \in 1..Len(ChangedPaths(base, target)) :
        LET path == ChangedPaths(base, target)[i]
            baseComp == OwningComponent(base, path)
            targetComp == OwningComponent(target, path)
        IN  /\ TypeOf(baseComp) = "SecurityRole" /\ TypeOf(targetComp) = "SecurityRole"
            /\ (PrivilegesThrow(baseComp) \/ PrivilegesThrow(targetComp))

CountStatusItems(base, target, status) ==
    Cardinality(UNION {
        LET logicalDiff == LogicalDiffOf(OwningComponent(base, path), OwningComponent(target, path))
        IN  {<<path, 0>>}
            \cup (IF logicalDiff = Undefined THEN {}
                  ELSE {<<path, j>> : j \in 1..Len(logicalDiff.added)})
        : path \in {q \in Range(AllPaths(base, target)) : StatusOf(base, target, q) = status} })

\* the counter the forEach increments for the status
CountStatus(base, target, status) ==
    Len(SelectSeq(AllPaths(base, target), LAMBDA path : StatusOf(base, target, path) = status))

\* the value of the solutionDiff memo for two parsed bundles
SolutionDiffOf(base, target) ==
    IF DiffThrows(base, target) THEN Threw
    ELSE [oldMetadata |-> base.metadata,
          newMetadata |-> target.metadata,
          fileDiffs |-> SortBy(Map(ChangedPaths(base, target),
                                   LAMBDA path : FileDiffOf(base, target, path)),
                               LAMBDA x, y : LocaleLess(x.path, y.path)),
          stats |-> [added |-> CountStatus(base, target, "added"),
                     removed |-> CountStatus(base, target, "removed"),
                     modified |-> CountStatus(base, target, "modified")]]

\* solutionDiff, a memo of appMode, baseSolution and targetSolution
solutionDiff ==
    IF appMode # "compare" \/ baseSolution = Null \/ targetSolution = Null THEN Null
    ELSE SolutionDiffOf(baseSolution, targetSolution)

(***************************************************************************)
(* The bundles that are compared: a descriptor and a nested package, each  *)
(* absent or with one of MaxContents contents, and a script that is absent *)
(* or present.                                                             *)
(***************************************************************************)
VariableEntryNames == { P \o XmlSuffix, CanvasPrefix \o P \o MsappSuffix }

FixedEntryNames == { Q \o <<".", "j", "s">> }

ContentBytes(k) == <<64 + k>>

DiffZips ==
    { SetToSeq({[name |-> n, dir |-> FALSE,
                 data |-> [kind |-> "bytes",
                           bytes |-> IF n \in FixedEntryNames THEN ContentBytes(0)
                                     ELSE ContentBytes(c[n])]]
                : n \in present})
      : present \in SUBSET (VariableEntryNames \cup FixedEntryNames),
        c \in [VariableEntryNames -> 1..MaxContents] }

\* what parseSolutionZip resolves to when the entries of z complete in the
\* given order
ParseInOrder(z, order) == ParseResult(z, Map(order, LAMBDA i : MakeFile(z[i])))

\* every archive that can be uploaded, with every value parseSolutionZip can
\* resolve to on it
DiffUploads ==
    UNION { {[file |-> z, parsed |-> ParseInOrder(z, order)]
             : order \in OrdersOf({i \in 1..Len(z) : ~z[i].dir})}
            : z \in DiffZips }

InitDiff ==
    /\ zip = <<>>
    /\ pending = {}
    /\ files = <<>>
    /\ components = <<>>
    /\ entityMap = <<>>
    /\ canvasAppMetadataList = <<>>
    /\ metadata = [components |-> <<>>, entities |-> <<>>, canvasApps |-> <<>>]
    /\ pc = "idle"
    /\ idx = 1
    /\ appMode = "home"
    /\ baseSolution = Null
    /\ targetSolution = Null
    /\ baseFile = <<>>
    /\ targetFile = <<>>
    /\ ViewInit

\* the mode buttons of the home screen and the back button of the upload screen
SetAppMode(mode) ==
    /\ \/ appMode = "home" /\ mode \in {"explore", "compare"}
       \/ appMode # "home" /\ mode = "home"
    /\ appMode' = mode
    /\ UNCHANGED <<baseSolution, targetSolution, baseFile, targetFile, parseVars, viewVars>>

\* handleFileUpload on a bundle of the given set that parses: the slot
\* receives the result
Upload(slot, uploads) ==
    /\ \/ slot = "base" /\ appMode \in {"explore", "compare"}
       \/ slot = "target" /\ appMode = "compare"
    /\ \E upload \in uploads :
            IF slot = "base"
            THEN /\ baseSolution' = upload.parsed
                 /\ baseFile' = upload.file
                 /\ UNCHANGED <<targetSolution, targetFile>>
            ELSE /\ targetSolution' = upload.parsed
                 /\ targetFile' = upload.file
                 /\ UNCHANGED <<baseSolution, baseFile>>
    /\ UNCHANGED <<appMode, parseVars, viewVars>>

HandleFileUpload(slot) == Upload(slot, DiffUploads)

NextDiff ==
    \/ \E mode \in {"home", "explore", "compare"} : SetAppMode(mode)
    \/ HandleFileUpload("base")
    \/ HandleFileUpload("target")

SpecDiff == InitDiff /\ [][NextDiff]_vars

(***************************************************************************)
(* Properties of the diff.                                                 *)
(***************************************************************************)
\* the entries of a fileDiffs list for a path
EntriesAt(fileDiffs, path) ==
    {i \in 1..Len(fileDiffs) : fileDiffs[i].path = path}

\* same paths, same contents, same components, in whatever order
SameBundle(a, b) ==
    /\ Range(a.files) = Range(b.files)
    /\ ByValue(a.metadata.components) = ByValue(b.metadata.components)

\* C8: diffing a bundle against an identical bundle yields an empty fileDiffs
\* and stats.added = stats.removed = stats.modified = 0.
C8_IdenticalEmpty ==
    (baseSolution # Null /\ targetSolution # Null /\ appMode = "compare"
     /\ SameBundle(baseSolution, targetSolution)) =>
        LET diff == solutionDiff
        IN  /\ diff # Threw
            /\ diff.fileDiffs = <<>>
            /\ diff.stats = [added |-> 0, removed |-> 0, modified |-> 0]

\* two identical bundles of two files or more, read in different orders
C8_Witness ==
    /\ baseSolution # Null /\ targetSolution # Null /\ appMode = "compare"
    /\ SameBundle(baseSolution, targetSolution)
    /\ Len(baseSolution.files) >= 2
    /\ baseSolution.files # targetSolution.files

BytesAt(file, path) ==
    LET i == FindIndex(file, LAMBDA e : e.name = path) IN file[i].data

\* C10: a path present in both base and target has an entry with status
\* modified exactly when the contents of the two archive entries differ byte
\* for byte, entries held as opaque binary included; with equal contents it
\* has no entry.
C10_ModifiedIffBytesDiffer ==
    LET diff == solutionDiff
    IN  (diff # Null /\ diff # Threw) =>
        \A path \in PathsOf(baseSolution.files) \cap PathsOf(targetSolution.files) :
            IF BytesAt(baseFile, path) # BytesAt(targetFile, path)
            THEN \E i \in EntriesAt(diff.fileDiffs, path) : diff.fileDiffs[i].status = "modified"
            ELSE EntriesAt(diff.fileDiffs, path) = {}

(***************************************************************************)
(* The bundles whose components are compared: a file P.xml with one of     *)
(* MaxContents contents, and descriptors that declare the component that   *)
(* owns it: a security role, a table or a flow, with or without the        *)
(* element of customizations.xml that carries its metadata.                *)
(***************************************************************************)
PrvWriteP == [name |-> Prv \o <<"W", "r", "i", "t", "e">> \o P, privilegeid |-> <<>>,
              level |-> <<"B">>, depth |-> <<>>]

\* the privilege lists of the role P
PrivilegeLists ==
    { <<PrvReadP>>,
      <<[PrvReadP EXCEPT !.level = <<"G">>], PrvWriteP>>,
      <<[PrvReadP EXCEPT !.depth = <<"D">>]>> }

FieldN == [logicalName |-> N, physicalName |-> <<>>, description |-> <<>>, type |-> <<>>]

\* the attribute lists of the entity P
AttributeLists ==
    { <<FieldT>>,
      <<FieldT, FieldN>>,
      <<[FieldT EXCEPT !.type = <<"i", "n", "t">>]>> }

LogicalManifests ==
    LET Of(roots, roles, entities) ==
            [roots |-> roots, roles |-> roles, entities |-> entities,
             relationships |-> <<>>, appModules |-> <<>>, workflows |-> <<>>, canvas |-> <<>>]
        Root(type) == <<[type |-> type, id |-> P, schemaName |-> <<>>]>>
    IN  {Of(<<>>, <<>>, <<>>)}
        \cup {Of(Root(type), <<>>, <<>>) : type \in {"1", "20", "29"}}
        \cup {Of(Root("20"), <<[id |-> P, name |-> Q, ismanaged |-> <<>>, privileges |-> pl]>>, <<>>)
              : pl \in PrivilegeLists}
        \cup {Of(Root("1"), <<>>, <<[name |-> P, localizedName |-> <<>>, attributes |-> al]>>)
              : al \in AttributeLists}

\* each manifest with the file P.xml, and the manifests of a root component
\* alone without it
LogicalZips ==
    { ZipOf(m) \o <<[name |-> P \o XmlSuffix, dir |-> FALSE,
                     data |-> [kind |-> "bytes", bytes |-> ContentBytes(k)]]>>
      : m \in LogicalManifests, k \in 1..MaxContents }
    \cup { ZipOf(m) : m \in {l \in LogicalManifests : l.roots # <<>> /\ l.roles = <<>>
                                                       /\ l.entities = <<>>} }

Reverse(seq) == [i \in 1..Len(seq) |-> seq[Len(seq) + 1 - i]]

\* the archives of LogicalZips, their entries completing in the order of the
\* archive or in the reverse order
LogicalUploads ==
    UNION { {[file |-> z, parsed |-> ParseInOrder(z, order)]
             : order \in {[i \in 1..Len(z) |-> i], Reverse([i \in 1..Len(z) |-> i])}}
            : z \in LogicalZips }

HandleLogicalUpload(slot) == Upload(slot, LogicalUploads)

NextLogical ==
    \/ \E mode \in {"home", "explore", "compare"} : SetAppMode(mode)
    \/ HandleLogicalUpload("base")
    \/ HandleLogicalUpload("target")

SpecLogical == InitDiff /\ [][NextLogical]_vars

EntriesWith(fileDiffs, status) ==
    Cardinality({i \in 1..Len(fileDiffs) : fileDiffs[i].status = status})

\* the number of items of a logical diff (0 when there is none)
ItemsOf(logicalDiff) ==
    IF logicalDiff = Undefined THEN 0
    ELSE Len(logicalDiff.added) + Len(logicalDiff.removed)
         + (IF "modified" \in DOMAIN logicalDiff THEN Len(logicalDiff.modified) ELSE 0)

\* C12: in every computed diff, stats.added, stats.removed and
\* stats.modified are the numbers of fileDiffs entries with status added,
\* removed and modified, so their sum is the length of fileDiffs, whatever
\* the logical diffs contain
C12_StatsCountStatuses ==
    LET diff == solutionDiff
    IN  (diff # Null /\ diff # Threw) =>
            /\ diff.stats.added = EntriesWith(diff.fileDiffs, "added")
            /\ diff.stats.removed = EntriesWith(diff.fileDiffs, "removed")
            /\ diff.stats.modified = EntriesWith(diff.fileDiffs, "modified")
            /\ diff.stats.added + diff.stats.removed + diff.stats.modified = Len(diff.fileDiffs)

\* a diff with an added and a modified entry, one of them with a logical diff
\* of two items
C12_Witness ==
    LET diff == solutionDiff
    IN  /\ diff # Null /\ diff # Threw
        /\ diff.stats.added >= 1 /\ diff.stats.modified >= 1
        /\ \E i \in 1..Len(diff.fileDiffs) : ItemsOf(diff.fileDiffs[i].logicalDiff) >= 2

\* both bundles are loaded and compared
Comparing == appMode = "compare" /\ baseSolution # Null /\ targetSolution # Null

\* the changed paths whose owning component has the type on both sides
ChangedOwnedBy(type) ==
    {path \in PathsOf(baseSolution.files) \cup PathsOf(targetSolution.files) :
        /\ StatusOf(baseSolution, targetSolution, path) # "unchanged"
        /\ TypeOf(OwningComponent(baseSolution, path)) = type
        /\ TypeOf(OwningComponent(targetSolution, path)) = type}

\* the privileges a role component carries (none without metadata)
PrivilegeSet(comp) ==
    IF comp.metadata = Undefined THEN {} ELSE Range(comp.metadata.privileges)

\* C13: when the owning component of a changed path is a SecurityRole on
\* both sides, the entry of the path carries a logical diff whose added list
\* is exactly the target privileges whose name is absent from base, whose
\* removed list is exactly the base privileges whose name is absent from
\* target, and whose modified list has exactly one {name, old, new} record per
\* privilege name present on both sides whose level or depth differs
C13_RoleLogicalDiff ==
    Comparing =>
        \A path \in ChangedOwnedBy("SecurityRole") :
            LET diff == solutionDiff
                old == PrivilegeSet(OwningComponent(baseSolution, path))
                new == PrivilegeSet(OwningComponent(targetSolution, path))
                differing == {<<o, n>> \in old \X new :
                                 o.name = n.name /\ (o.level # n.level \/ o.depth # n.depth)}
            IN  /\ diff # Threw
                /\ \E i \in EntriesAt(diff.fileDiffs, path) :
                      LET logicalDiff == diff.fileDiffs[i].logicalDiff
                      IN  /\ logicalDiff # Undefined
                          /\ logicalDiff.type = "SecurityRole"
                          /\ Range(logicalDiff.added)
                                = {n \in new : \A o \in old : o.name # n.name}
                          /\ NoDuplicate(logicalDiff.added)
                          /\ Range(logicalDiff.removed)
                                = {o \in old : \A n \in new : n.name # o.name}
                          /\ NoDuplicate(logicalDiff.removed)
                          /\ Range(logicalDiff.modified)
                                = {[name |-> d[2].name, old |-> d[1], new |-> d[2]] : d \in differing}
                          /\ \A j, k \in 1..Len(logicalDiff.modified) :
                                logicalDiff.modified[j].name = logicalDiff.modified[k].name => j = k

\* the fields a table component carries (none without metadata)
FieldSet(comp) ==
    IF comp.metadata = Undefined THEN {} ELSE Range(comp.metadata.fields)

\* C14: in a computed diff, when the owning component of a changed path is a
\* Table on both sides, the entry of the path carries a logical diff whose
\* added list is exactly the target fields whose name is absent from base and
\* whose removed list is exactly the base fields whose name is absent from
\* target; a field on both sides with a different type is in neither list,
\* and there is no modified list
C14_TableLogicalDiff ==
    (Comparing /\ solutionDiff # Threw) =>
        \A path \in ChangedOwnedBy("Table") :
            LET diff == solutionDiff
                old == FieldSet(OwningComponent(baseSolution, path))
                new == FieldSet(OwningComponent(targetSolution, path))
            IN  \E i \in EntriesAt(diff.fileDiffs, path) :
                    LET logicalDiff == diff.fileDiffs[i].logicalDiff
                    IN  /\ logicalDiff # Undefined
                        /\ logicalDiff.type = "Table"
                        /\ Range(logicalDiff.added) = {n \in new : \A o \in old : o.name # n.name}
                        /\ NoDuplicate(logicalDiff.added)
                        /\ Range(logicalDiff.removed) = {o \in old : \A n \in new : n.name # o.name}
                        /\ NoDuplicate(logicalDiff.removed)
                        /\ \A o \in old, n \in new :
                              (o.name = n.name /\ o.type # n.type) =>
                                  /\ n \notin Range(logicalDiff.added)
                                  /\ o \notin Range(logicalDiff.removed)
                        /\ "modified" \notin DOMAIN logicalDiff

\* a changed path owned by a table on both sides, with a field added and a
\* field whose type differs between the sides
C14_Witness ==
    /\ Comparing /\ solutionDiff # Threw
    /\ \E path \in ChangedOwnedBy("Table") :
          LET old == FieldSet(OwningComponent(baseSolution, path))
              new == FieldSet(OwningComponent(targetSolution, path))
          IN  /\ \E o \in old, n \in new : o.name = n.name /\ o.type # n.type
              /\ \E n \in new : \A o \in old : o.name # n.name

\* the changed paths of the two bundles
Changed ==
    {path \in PathsOf(baseSolution.files) \cup PathsOf(targetSolution.files) :
        StatusOf(baseSolution, targetSolution, path) # "unchanged"}

\* C15: an entry carries a logical diff only when the first component whose
\* files contain its path is a Table on both sides or a SecurityRole on both
\* sides; for every other changed path (no owning component on a side,
\* different kinds, another kind) no error is raised and the entry is
\* emitted with its file-level status and no logical diff
C15_LogicalDiffOnlyForPairs ==
    Comparing =>
        LET diff == solutionDiff
            paired == ChangedOwnedBy("Table") \cup ChangedOwnedBy("SecurityRole")
        IN  /\ \A path \in Changed \ paired :
                  /\ diff # Threw
                  /\ Cardinality(EntriesAt(diff.fileDiffs, path)) = 1
                  /\ \A i \in EntriesAt(diff.fileDiffs, path) :
                        /\ diff.fileDiffs[i].status = StatusOf(baseSolution, targetSolution, path)
                        /\ diff.fileDiffs[i].logicalDiff = Undefined
            /\ diff # Threw =>
                  \A i \in 1..Len(diff.fileDiffs) :
                      diff.fileDiffs[i].logicalDiff # Undefined => diff.fileDiffs[i].path \in paired

(***************************************************************************)
(* Properties of the file collection.                                      *)
(***************************************************************************)
\* the entries of the archive that are not directories
FileEntries == {i \in 1..Len(zip) : ~zip[i].dir}

\* C16: when the extraction of an entry fails in an archive that opened, the
\* read is not aborted: once every extraction has ended, each other entry is
\* in the file collection and the failed entry is recorded as binary or empty
C16_CorruptEntrySkipped ==
    /\ (\E i \in FileEntries : zip[i].data.kind = "corrupt") => pc # "rejected"
    /\ pending = {} =>
          \A i \in FileEntries :
              \E k \in 1..Len(files) :
                  /\ files[k].path = zip[i].name
                  /\ zip[i].data.kind = "corrupt" =>
                        files[k].content \in {BinaryContent, [kind |-> "text", text |-> <<>>]}

\* C17: under every interleaving of the extractions, the parsing of the
\* manifests starts only after all of them have completed, and the file
\* collection then holds exactly one entry for each entry of the archive that
\* is not a directory
C17_ExtractionBarrier ==
    pc \notin {"collect", "rejected"} =>
        /\ pending = {}
        /\ Len(files) = Cardinality(FileEntries)
        /\ \A i \in FileEntries :
              Cardinality({k \in 1..Len(files) : files[k].path = zip[i].name}) = 1

\* a pass runs on an archive with a directory and two files whose extractions
\* completed in the reverse of the archive's order
C17_Witness ==
    /\ pc \in {"root", "canvas"}
    /\ \E i \in 1..Len(zip) : zip[i].dir
    /\ Len(files) >= 2
    /\ \E i, j \in FileEntries :
          i < j /\ files[1].path = zip[j].name /\ files[2].path = zip[i].name

\* the elements of a set of numbers in ascending order
SetToSeqAscending(S) ==
    LET F[n \in 0..Cardinality(S)] ==
            IF n = 0 THEN <<>>
            ELSE Append(F[n - 1], CHOOSE x \in S : Cardinality({y \in S : y < x}) = n - 1)
    IN  F[Cardinality(S)]

\* what parseSolutionZip resolves to when the extractions complete in the
\* order of the archive
InArchiveOrder == ParseInOrder(zip, SetToSeqAscending(FileEntries))

\* C18: the ingested model does not depend on the order in which the
\* extractions complete: whatever the order, metadata.components (each files
\* list as a set), metadata.entities and metadata.canvasApps are those of the
\* archive's own order
C18_OrderIndependent ==
    pc = "done" =>
        /\ ByValue(metadata.components) = ByValue(InArchiveOrder.metadata.components)
        /\ metadata.entities = InArchiveOrder.metadata.entities
        /\ metadata.canvasApps = InArchiveOrder.metadata.canvasApps

(***************************************************************************)
(* Properties of the decomposition of privilege names.                     *)
(***************************************************************************)
\* the privileges recorded so far in the metadata of the role components
RecordedPrivileges ==
    UNION {Range(components[i].metadata.privileges) :
           i \in {j \in 1..Len(components) : /\ components[j].type = "SecurityRole"
                                             /\ components[j].metadata # Undefined}}

\* the action of the vocabulary a name starts with after prv, AppendTo before
\* Append (0 when there is none)
ActionPrefix(name) ==
    IF \E k \in 1..Len(ActionVocabulary) : StartsWith(name, Prv \o ActionVocabulary[k])
    THEN CHOOSE k \in 1..Len(ActionVocabulary) :
            /\ StartsWith(name, Prv \o ActionVocabulary[k])
            /\ \A j \in 1..Len(ActionVocabulary) :
                  StartsWith(name, Prv \o ActionVocabulary[j])
                      => Len(ActionVocabulary[j]) <= Len(ActionVocabulary[k])
    ELSE 0

\* what follows prv and the action in a name
EntityPart(name) ==
    SubSeq(name, Len(Prv) + Len(ActionVocabulary[ActionPrefix(name)]) + 1, Len(name))

\* C19: a privilege whose name is prv + A + E, A an action of the vocabulary
\* (AppendTo before Append) and E not empty, gets action A and entity E; a
\* privilege whose name has no such action prefix gets no action, and its
\* entity is the name without a leading prv
C19_PrivilegeDecomposition ==
    \A pr \in RecordedPrivileges :
        IF ActionPrefix(pr.name) # 0
        THEN EntityPart(pr.name) # <<>> =>
                /\ pr.action = Some(ActionVocabulary[ActionPrefix(pr.name)])
                /\ pr.entity = EntityPart(pr.name)
        ELSE /\ pr.action = None
             /\ pr.entity = IF StartsWith(pr.name, Prv)
                            THEN SubSeq(pr.name, Len(Prv) + 1, Len(pr.name))
                            ELSE pr.name

\* C20: a privilege whose name decomposes to no entity (an action prefix
\* with nothing after it, the bare name prv, the empty name) is recorded with
\* the entity "Global System", and no privilege is stored with an empty entity
C20_GlobalSystemSentinel ==
    \A pr \in RecordedPrivileges :
        /\ pr.entity # <<>>
        /\ (\/ pr.name = <<>>
            \/ pr.name = Prv
            \/ ActionPrefix(pr.name) # 0 /\ EntityPart(pr.name) = <<>>)
               => pr.entity = GlobalSystem

(***************************************************************************)
(* Properties of the canvas app pass.                                      *)
(***************************************************************************)
\* the nested packages of the archive that the lookup of the app finds
PackagesOf(name) ==
    {i \in FileEntries : /\ StartsWith(zip[i].name, CanvasPrefix)
                         /\ Includes(zip[i].name, name)
                         /\ EndsWith(zip[i].name, MsappSuffix)}

\* the package opens and its properties document decodes to an object
Readable(package) ==
    /\ package.kind = "zip"
    /\ \E k \in 1..Len(package.entries) :
          /\ package.entries[k].name = PropertiesJson
          /\ JsonParse(package.entries[k].text) \notin {Threw, Null}

\* C21: a gap in the read of a canvas app never aborts the ingestion: when
\* every entry of the archive extracts, the parse is not rejected, whatever the
\* nested package or the embedded JSON of a descriptor holds, and an app whose
\* nested package is missing or has no readable properties document is
\* returned with controlCount and layout unset, and an embedded JSON text that
\* does not decode leaves tags unset
C21_PartialParseTolerated ==
    (\A i \in FileEntries : zip[i].data.kind # "corrupt") =>
        /\ pc # "rejected"
        /\ pc = "done" =>
              \A k \in 1..Len(metadata.canvasApps) :
                  LET app == metadata.canvasApps[k]
                      doc == ContentAt(files, app.path)
                  IN  /\ (\A i \in PackagesOf(app.name) : ~Readable(zip[i].data)) =>
                            /\ app.controlCount = Undefined
                            /\ app.layout = Undefined
                            /\ app.description = CanvasText([content |-> doc], "description")
                      /\ JsonParse(CanvasText([content |-> doc], "tags")) = Threw =>
                            app.tags = Undefined

\* the app descriptors of the file collection: the XML documents under
\* CanvasApps/
AppDescriptors ==
    {k \in 1..Len(files) : /\ StartsWith(files[k].path, CanvasPrefix)
                           /\ EndsWith(files[k].path, XmlSuffix)
                           /\ files[k].content.kind = "canvasapp"}

\* the records of metadata.canvasApps built from the descriptor at the path
RecordsOf(path) ==
    {k \in 1..Len(metadata.canvasApps) : metadata.canvasApps[k].path = path}

\* C24: in the returned model every app descriptor under CanvasApps/ has
\* exactly one record in metadata.canvasApps, whose isPage is true exactly when
\* the type code of the descriptor is 1, and a component of kind App carries
\* its name or its id
C24_DescriptorYieldsApp ==
    pc = "done" =>
        \A k \in AppDescriptors :
            LET doc == files[k].content
            IN  /\ Cardinality(RecordsOf(files[k].path)) = 1
                /\ \A r \in RecordsOf(files[k].path) :
                      metadata.canvasApps[r].isPage <=> (doc.appType = <<"1">>)
                /\ \E c \in 1..Len(metadata.components) :
                      /\ metadata.components[c].type = "App"
                      /\ \/ metadata.components[c].logicalName = doc.name
                         \/ metadata.components[c].id = Or(doc.appId, doc.name)

(***************************************************************************)
(* Properties of the role pass.                                            *)
(***************************************************************************)
\* the component is a security role that holds the privileges of the Role
\* element
HoldsRole(c, role) ==
    /\ c.type = "SecurityRole"
    /\ c.id = role.id
    /\ c.metadata # Undefined
    /\ "privileges" \in DOMAIN c.metadata
    /\ c.metadata.privileges = RoleMeta(role).privileges

\* C25: in the returned model every Role element of the customization
\* descriptor has a component of kind SecurityRole with its id whose metadata
\* holds the privileges of the element, whatever was seeded under that id
\* before
C25_RoleRepresented ==
    pc = "done" =>
        \A role \in Range(CustomizationsOf(files).roles) :
            \E c \in Range(metadata.components) : HoldsRole(c, role)

(***************************************************************************)
(* Properties of the logical diff and of the relationship edges.           *)
(***************************************************************************)
\* C26: every entry of the diff that carries a logical diff has the status
\* modified: the entry of an added or removed path carries none
C26_LogicalDiffOnlyModified ==
    Comparing =>
        LET diff == solutionDiff
        IN  diff # Threw =>
                \A i \in 1..Len(diff.fileDiffs) :
                    diff.fileDiffs[i].logicalDiff # Undefined =>
                        diff.fileDiffs[i].status = "modified"

\* an entry carries a logical diff
C26_Witness ==
    /\ Comparing
    /\ solutionDiff # Threw
    /\ \E i \in 1..Len(solutionDiff.fileDiffs) :
          /\ solutionDiff.fileDiffs[i].logicalDiff # Undefined
          /\ solutionDiff.fileDiffs[i].status = "modified"

\* C27: two relationship elements between laid-out entities that differ in
\* name or in their unordered pair of entities each keep an edge of their own
\* in the aggregate relationship set
C27_NoCollapse ==
    pc = "done" =>
        LET known == {metadata.entities[i].logicalName : i \in 1..Len(metadata.entities)}
            all == AllRelationships(metadata.entities)
            rels == ElementsOf("relationships", files)
            drawn == {k \in 1..Len(rels) : rels[k].from \in known /\ rels[k].to \in known}
        IN  \A j, k \in drawn :
                (rels[j].name # rels[k].name
                 \/ {rels[j].from, rels[j].to} # {rels[k].from, rels[k].to})
                    => /\ EdgesOf(rels[j], all) # {}
                       /\ EdgesOf(rels[k], all) # {}

(***************************************************************************)
(* The oracle service (services/geminiService.ts) and its callers.  One    *)
(* call of the service is followed step by step: the invocations of fn,    *)
(* the waits between them, and the continuation of the caller.  The        *)
(* callers run with a service at hand (gemini is not null).                *)
(***************************************************************************)
\* the defaults of executeWithRetry
DefaultRetries == 3
DefaultDelay == 1000
\* number of messages chatHistory holds before the chat stops taking more
MaxHistory == 2

Status429 == <<"4", "2", "9">>
ResourceExhausted ==
    <<"R", "E", "S", "O", "U", "R", "C", "E", "_", "E", "X", "H", "A", "U", "S", "T", "E", "D">>

\* what fn can throw: the message of a rate-limited call, of an exhausted
\* quota, of a server error, and an error without a message
FnErrors ==
    { [name |-> "Error", message |-> <<"[">> \o Status429 \o <<"]">>],
      [name |-> "Error", message |-> ResourceExhausted],
      [name |-> "Error", message |-> <<"5", "0", "0">>],
      [name |-> "Error", message |-> <<>>] }

\* new QuotaError('API rate limit exceeded.')
QuotaError ==
    [name |-> "QuotaError",
     message |-> <<"A", "P", "I", " ", "r", "a", "t", "e", " ", "l", "i", "m", "i", "t", " ",
                   "e", "x", "c", "e", "e", "d", "e", "d", ".">>]

\* the text of a response of the oracle: none, a JSON document, a document
\* cut short
ResponseTexts == {<<>>, SummaryText, TruncatedText}

Returned(value) == [kind |-> "returned", value |-> value, error |-> Null]
Thrown(error) == [kind |-> "threw", value |-> Null, error |-> error]

FnOutcomes ==
    {Returned([text |-> text]) : text \in ResponseTexts} \cup {Thrown(error) : error \in FnErrors}

\* errorMsg.includes('429') || errorMsg.includes('RESOURCE_EXHAUSTED')
IsQuotaMessage(errorMsg) == Includes(errorMsg, Status429) \/ Includes(errorMsg, ResourceExhausted)

MayRetryAlways(r) == r >= 0

\* if (retries > 0)
MayRetry(r) == r > 0

\* a caller enters executeWithRetry with the defaults
StartCall(op) ==
    /\ callState = "idle"
    /\ operation' = op
    /\ callState' = "invoking"
    /\ retries' = DefaultRetries
    /\ delay' = DefaultDelay
    /\ attempts' = <<>>
    /\ waits' = <<>>
    /\ outcome' = Null

\* the continuation of the caller has run: the frames of the call are gone
EndCall ==
    /\ callState = "settled"
    /\ operation' = "none"
    /\ callState' = "idle"
    /\ retries' = 0
    /\ delay' = 0
    /\ attempts' = <<>>
    /\ waits' = <<>>
    /\ outcome' = Null

\* await fn() settles: a result is returned to the caller, an error that is
\* not a quota error is rethrown, a quota error is retried after the wait or
\* becomes a QuotaError
InvokeFn(result) ==
    /\ callState = "invoking"
    /\ attempts' = Append(attempts, result)
    /\ IF result.kind = "threw" /\ IsQuotaMessage(result.error.message)
       THEN IF MayRetry(retries)
            THEN callState' = "waiting" /\ outcome' = outcome
            ELSE callState' = "settled" /\ outcome' = Thrown(QuotaError)
       ELSE callState' = "settled" /\ outcome' = result
    /\ UNCHANGED <<operation, retries, delay, waits, chatVars, diffViewVars, flowVars,
                   uploadVars, parseVars, appVars>>

\* the timeout of the wait fires and the next frame is entered
RetryAfterDelay ==
    /\ callState = "waiting"
    /\ waits' = Append(waits, delay)
    /\ retries' = retries - 1
    /\ delay' = delay * 2
    /\ callState' = "invoking"
    /\ UNCHANGED <<operation, attempts, outcome, chatVars, diffViewVars, flowVars,
                   uploadVars, parseVars, appVars>>

(***************************************************************************)
(* handleSendMessage (App.tsx).                                            *)
(***************************************************************************)
Messages == {<<"h", "i">>, <<" ">>}

\* !message.trim()
Blank(message) == \A i \in 1..Len(message) : message[i] = " "

NoResponse == <<"N", "o", " ", "r", "e", "s", "p", "o", "n", "s", "e">>
CommunicationError ==
    <<"C", "o", "m", "m", "u", "n", "i", "c", "a", "t", "i", "o", "n", " ",
      "e", "r", "r", "o", "r", ".">>

\* the handler up to its await of gemini.sendMessage
HandleSendMessage(message) ==
    /\ ~Blank(message)
    /\ Len(chatHistory) < MaxHistory
    /\ StartCall("sendMessage")
    /\ chatHistory' = Append(chatHistory, [role |-> "user", text |-> message])
    /\ isChatLoading' = TRUE
    /\ UNCHANGED <<isQuotaExhausted, diffViewVars, flowVars, uploadVars, parseVars, appVars>>

\* chatHistory and isQuotaExhausted after the try / catch of the handler
ChatSettled(history, quota, out) ==
    IF out.kind = "returned"
    THEN [chatHistory |-> Append(history, [role |-> "model",
                                           text |-> Or(out.value.text, NoResponse)]),
          isQuotaExhausted |-> quota]
    ELSE [chatHistory |-> Append(history, [role |-> "model", text |-> CommunicationError]),
          isQuotaExhausted |-> (quota \/ out.error.name = "QuotaError")]

\* the handler from the await on: try, catch, finally
SendMessageSettles ==
    /\ operation = "sendMessage"
    /\ EndCall
    /\ chatHistory' = ChatSettled(chatHistory, isQuotaExhausted, outcome).chatHistory
    /\ isQuotaExhausted' = ChatSettled(chatHistory, isQuotaExhausted, outcome).isQuotaExhausted
    /\ isChatLoading' = FALSE
    /\ UNCHANGED <<diffViewVars, flowVars, uploadVars, parseVars, appVars>>

(***************************************************************************)
(* DiffView.performAnalysis (components/DiffView.tsx).                     *)
(***************************************************************************)
\* the FileDiffs the list offers
DiffItems ==
    { [path |-> P, status |-> "modified"], [path |-> N, status |-> "modified"],
      [path |-> Q, status |-> "added"], [path |-> R, status |-> "removed"] }

\* the effect on [diff] calls performAnalysis
Analyzed(diff) == diff # Null /\ diff.status \in {"modified", "added"}

\* setIsAnalyzing(true); setAnalysis(null)
AnalysisStarted(view) == [analysis |-> Null, isAnalyzing |-> TRUE]

\* analyzeDiff after executeWithRetry: JSON.parse(response.text || '{}')
AnalyzeDiffResult(out) ==
    IF out.kind = "threw" THEN out
    ELSE LET value == JsonParse(Or(out.value.text, EmptyObjectText))
         IN  IF value = Threw THEN Thrown([name |-> "SyntaxError", message |-> <<>>])
             ELSE Returned(value)

\* the state after the try / catch / finally of performAnalysis
AnalysisSettled(view, out) ==
    [analysis |-> IF out.kind = "returned" THEN out.value ELSE view.analysis,
     isAnalyzing |-> FALSE]

\* a diff is selected and its analysis is requested
PerformAnalysis(diff) ==
    /\ Analyzed(diff)
    /\ StartCall("analyzeDiff")
    /\ selectedFileDiff' = diff
    /\ diffView' = AnalysisStarted(diffView)
    /\ UNCHANGED <<diffRequests, chatVars, flowVars, uploadVars, parseVars, appVars>>

PerformAnalysisSettles ==
    /\ operation = "analyzeDiff"
    /\ EndCall
    /\ diffView' = AnalysisSettled(diffView, AnalyzeDiffResult(outcome))
    /\ UNCHANGED <<selectedFileDiff, diffRequests, chatVars, flowVars, uploadVars, parseVars,
                   appVars>>

(***************************************************************************)
(* FlowVisualizer.handleSelectStep (components/FileView.tsx).              *)
(***************************************************************************)
AnalysisUnavailable ==
    <<"A", "n", "a", "l", "y", "s", "i", "s", " ", "u", "n", "a", "v", "a", "i", "l", "a", "b",
      "l", "e", ".">>
FailedToAnalyze ==
    <<"F", "a", "i", "l", "e", "d", " ", "t", "o", " ", "a", "n", "a", "l", "y", "z", "e", " ",
      "s", "t", "e", "p", ".">>

\* analyzeFlowStep after executeWithRetry: response.text || 'Analysis unavailable.'
AnalyzeFlowStepResult(out) ==
    IF out.kind = "threw" THEN out
    ELSE Returned([text |-> Or(out.value.text, AnalysisUnavailable)])

\* the handler up to the await: the cached analysis is shown, or the analysis
\* is cleared and requested
StepSelected(view, step) ==
    IF view.analysisCache[step.id] # Undefined
    THEN [view EXCEPT !.selectedStep = step, !.analysis = view.analysisCache[step.id],
                      !.isAnalyzing = FALSE]
    ELSE [view EXCEPT !.selectedStep = step, !.analysis = Null, !.isAnalyzing = TRUE]

\* the handler from the await on, for the step it was called with
StepSettled(view, step, out) ==
    IF out.kind = "returned"
    THEN [view EXCEPT !.analysis = out.value, !.analysisCache[step.id] = out.value,
                      !.isAnalyzing = FALSE]
    ELSE [view EXCEPT !.analysis = [text |-> FailedToAnalyze], !.isAnalyzing = FALSE]

HandleSelectStep(step) ==
    /\ flowVisualizer' = StepSelected(flowVisualizer, step)
    /\ IF flowVisualizer.analysisCache[step.id] # Undefined
       THEN callState = "idle" /\ UNCHANGED oracleVars
       ELSE StartCall("analyzeFlowStep")
    /\ UNCHANGED <<definition, flowRequests, chatVars, diffViewVars, uploadVars, parseVars,
                   appVars>>

HandleSelectStepSettles ==
    /\ operation = "analyzeFlowStep"
    /\ EndCall
    /\ flowVisualizer' = StepSettled(flowVisualizer, flowVisualizer.selectedStep,
                                     AnalyzeFlowStepResult(outcome))
    /\ UNCHANGED <<definition, flowRequests, chatVars, diffViewVars, uploadVars, parseVars,
                   appVars>>

NextOracle ==
    \/ \E message \in Messages : HandleSendMessage(message)
    \/ \E diff \in DiffItems : PerformAnalysis(diff)
    \/ HandleSelectStep([id |-> "step1"])
    \/ \E result \in FnOutcomes : InvokeFn(result)
    \/ RetryAfterDelay
    \/ SendMessageSettles
    \/ PerformAnalysisSettles
    \/ HandleSelectStepSettles

SpecOracle == InitDiff /\ [][NextOracle]_vars

(***************************************************************************)
(* Properties of the oracle service and of its callers.                    *)
(***************************************************************************)
\* the invocation failed with a quota error
QuotaFailure(result) == result.kind = "threw" /\ IsQuotaMessage(result.error.message)

\* every invocation of the call failed with a quota error and no retry is left
QuotaSpent ==
    /\ Len(attempts) = DefaultRetries + 1
    /\ \A i \in 1..Len(attempts) : QuotaFailure(attempts[i])

\* an error of fn that is not a quota error
OrdinaryFailure == Thrown([name |-> "Error", message |-> <<"5", "0", "0">>])

\* C22: for each operation of the oracle, a call that fails on an exhausted
\* quota ends with a QuotaError, and the continuation of the caller leaves a
\* state that shows it: the chat raises isQuotaExhausted, the diff view and
\* the flow visualizer end in a state other than the one an ordinary failure
\* of the same call leaves
C22_QuotaDistinguished ==
    [][ /\ (callState = "settled" /\ QuotaSpent) => outcome = Thrown(QuotaError)
        /\ (callState = "settled" /\ callState' = "idle" /\ outcome = Thrown(QuotaError)) =>
              CASE operation = "sendMessage" -> isQuotaExhausted'
                [] operation = "analyzeDiff" ->
                      diffView' # AnalysisSettled(diffView, AnalyzeDiffResult(OrdinaryFailure))
                [] operation = "analyzeFlowStep" ->
                      flowVisualizer' # StepSettled(flowVisualizer, flowVisualizer.selectedStep,
                                                    AnalyzeFlowStepResult(OrdinaryFailure)) ]_vars

RECURSIVE Pow2(_)
Pow2(n) == IF n = 0 THEN 1 ELSE 2 * Pow2(n - 1)

\* C28: a call of executeWithRetry invokes fn at most retries + 1 times (4 with
\* the defaults); fn is invoked again only after a quota failure and a wait,
\* each frame having one retry less and twice the delay, the waits starting at
\* delay; the call returns the first result, rethrows the first error that is
\* not a quota error, and throws QuotaError exactly when all retries + 1
\* invocations failed with a quota error
C28_RetryBounded ==
    /\ Len(attempts) <= DefaultRetries + 1
    /\ callState # "idle" =>
          /\ retries >= 0
          /\ retries + Len(waits) = DefaultRetries
          /\ delay = DefaultDelay * Pow2(Len(waits))
          /\ \A i \in 1..Len(waits) : waits[i] = DefaultDelay * Pow2(i - 1)
          /\ \A i \in 1..(Len(attempts) - 1) : QuotaFailure(attempts[i])
          /\ Len(attempts) = IF callState = "invoking" THEN Len(waits) ELSE Len(waits) + 1
    /\ callState = "settled" =>
          LET last == attempts[Len(attempts)]
          IN  /\ ~QuotaFailure(last) => outcome = last
              /\ outcome = Thrown(QuotaError) <=> QuotaSpent

\* all four invocations failed with a quota error and the call threw
\* QuotaError after waiting 1000, 2000 and 4000
C28_Witness ==
    /\ callState = "settled"
    /\ QuotaSpent
    /\ outcome = Thrown(QuotaError)
    /\ waits = <<1000, 2000, 4000>>

(***************************************************************************)
(* handleFileUpload (App.tsx) around its await of parseSolutionZip.        *)
(***************************************************************************)
\* calls of handleFileUpload that can wait on parseSolutionZip at once
MaxUploads == 2
\* failure notifications after which no further bundle is handed in
MaxAlerts == 2

\* the promise of parseSolutionZip rejects: an entry fails to extract, or the
\* read of a nested package throws
ParseRejects(z) ==
    LET fs == [i \in 1..Len(z) |-> MakeFile(z[i])]
    IN  \/ \E i \in 1..Len(z) : z[i].data.kind = "corrupt"
        \/ \E f \in Range(CanvasAppFiles(fs)) : AppMetaOf(z, fs, f) = Threw

\* the bundles handed in: the file P.xml alone with each content, an archive
\* whose only entry fails to extract, and an app whose nested package is not
\* an archive
UploadZips ==
    {z \in DiffZips : Len(z) = 1 /\ z[1].name = P \o XmlSuffix}
    \cup {z \in CorruptZips : Len(z) = 1}
    \cup {z \in PackageZips : z[1].data = CanvasDoc(Q, P, <<>>, <<"1">>)
                              /\ z[2].data = NotAnArchive}

UploadBundles ==
    { [file |-> z,
       parsed |-> IF ParseRejects(z) THEN Threw ELSE ParseInOrder(z, [i \in 1..Len(z) |-> i])]
      : z \in UploadZips }

RejectedNever(upload) == FALSE

\* the await of parseSolutionZip throws into the catch block
Rejected(upload) == upload.parsed = Threw

\* the handler up to its await: setIsLoading(true)
BeginUpload(slot) ==
    /\ \/ slot = "base" /\ appMode \in {"explore", "compare"}
       \/ slot = "target" /\ appMode = "compare"
    /\ Cardinality(uploading) < MaxUploads
    /\ alerts + Cardinality(uploading) < MaxAlerts
    /\ \E upload \in UploadBundles :
          uploading' = uploading \cup {[slot |-> slot, upload |-> upload]}
    /\ isLoading' = TRUE
    /\ UNCHANGED <<alerts, appVars, parseVars, oracleVars, chatVars, diffViewVars, flowVars>>

\* the handler from the await on: the slot receives the result, or the catch
\* block raises the alert; finally setIsLoading(false)
SettleUpload(call) ==
    /\ call \in uploading
    /\ uploading' = uploading \ {call}
    /\ IF Rejected(call.upload)
       THEN /\ alerts' = alerts + 1
            /\ UNCHANGED <<baseSolution, baseFile, targetSolution, targetFile>>
       ELSE /\ alerts' = alerts
            /\ IF call.slot = "base"
               THEN /\ baseSolution' = call.upload.parsed
                    /\ baseFile' = call.upload.file
                    /\ UNCHANGED <<targetSolution, targetFile>>
               ELSE /\ targetSolution' = call.upload.parsed
                    /\ targetFile' = call.upload.file
                    /\ UNCHANGED <<baseSolution, baseFile>>
    /\ isLoading' = FALSE
    /\ UNCHANGED <<appMode, parseVars, oracleVars, chatVars, diffViewVars, flowVars>>

NextUpload ==
    \/ \E mode \in {"home", "explore", "compare"} : SetAppMode(mode)
    \/ BeginUpload("base")
    \/ BeginUpload("target")
    \/ \E call \in uploading : SettleUpload(call)

SpecUpload == InitDiff /\ [][NextUpload]_vars

\* C23: the call of handleFileUpload whose parseSolutionZip fails raises
\* exactly one failure notification, when the failure reaches it and not
\* before; it leaves the base and the target slot as they were and sets
\* isLoading to false
C23_FailedUploadContained ==
    [][ /\ \A call \in uploading :
              (call.upload.parsed = Threw /\ uploading' = uploading \ {call}) =>
                  /\ alerts' = alerts + 1
                  /\ baseSolution' = baseSolution
                  /\ targetSolution' = targetSolution
                  /\ isLoading' = FALSE
        /\ (\A call \in uploading :
                call.upload.parsed = Threw => uploading' # uploading \ {call}) =>
              alerts' = alerts ]_vars

\* a bundle failed to parse after the base slot was filled: one notification,
\* the slot still filled, nothing loading
C23_Witness ==
    /\ alerts = 1
    /\ uploading = {}
    /\ baseSolution # Null
    /\ ~isLoading

(***************************************************************************)
(* DiffView under several calls of analyzeDiff at once.  A call is kept    *)
(* with the diff of the render that made it; it settles as a whole, with   *)
(* the analysis of that diff or with a failure.                            *)
(***************************************************************************)
\* calls of a component that can wait on the oracle at once
MaxRequests == 3

\* the analysis the oracle returns for the diff
AnalysisOf(diff) == [kind |-> "object", summary |-> diff.path]

\* seq without its k-th element
RemoveAt(seq, k) == SubSeq(seq, 1, k - 1) \o SubSeq(seq, k + 1, Len(seq))

\* an entry of the list is clicked: App hands another FileDiff to DiffView
\* and the effect on [diff] runs
SelectFileDiff(diff) ==
    /\ diff # selectedFileDiff
    /\ selectedFileDiff' = diff
    /\ IF Analyzed(diff)
       THEN /\ Len(diffRequests) < MaxRequests
            /\ diffView' = AnalysisStarted(diffView)
            /\ diffRequests' = Append(diffRequests, diff)
       ELSE /\ diffView' = [diffView EXCEPT !.analysis = Null]
            /\ UNCHANGED diffRequests
    /\ UNCHANGED <<oracleVars, chatVars, flowVars, uploadVars, parseVars, appVars>>

\* the await of a call returns or throws
AnalyzeDiffSettles(k) ==
    /\ k \in 1..Len(diffRequests)
    /\ \E out \in {Returned(AnalysisOf(diffRequests[k])), Thrown(QuotaError), OrdinaryFailure} :
          diffView' = AnalysisSettled(diffView, out)
    /\ diffRequests' = RemoveAt(diffRequests, k)
    /\ UNCHANGED <<selectedFileDiff, oracleVars, chatVars, flowVars, uploadVars, parseVars,
                   appVars>>

NextDiffView ==
    \/ \E diff \in DiffItems : SelectFileDiff(diff)
    \/ \E k \in 1..MaxRequests : AnalyzeDiffSettles(k)

SpecDiffView == InitDiff /\ [][NextDiffView]_vars

(***************************************************************************)
(* FlowVisualizer under several calls of analyzeFlowStep at once.          *)
(***************************************************************************)
\* flow definitions the visualizer is handed one after the other
MaxDefinitions == 2

\* the analysis the oracle returns for the step of the flow definition
FlowAnalysisOf(step, def) == [step |-> step.id, definition |-> def]

\* a step is clicked
SelectStep(step) ==
    /\ flowVisualizer' = StepSelected(flowVisualizer, step)
    /\ IF flowVisualizer.analysisCache[step.id] # Undefined
       THEN UNCHANGED flowRequests
       ELSE /\ Len(flowRequests) < MaxRequests
            /\ flowRequests' = Append(flowRequests, [step |-> step, definition |-> definition])
    /\ UNCHANGED <<definition, oracleVars, chatVars, diffViewVars, uploadVars, parseVars, appVars>>

\* the await of a call returns or throws
AnalyzeFlowStepSettles(k) ==
    /\ k \in 1..Len(flowRequests)
    /\ \E out \in {Returned(FlowAnalysisOf(flowRequests[k].step, flowRequests[k].definition)),
                   Thrown(QuotaError), OrdinaryFailure} :
          flowVisualizer' = StepSettled(flowVisualizer, flowRequests[k].step, out)
    /\ flowRequests' = RemoveAt(flowRequests, k)
    /\ UNCHANGED <<definition, oracleVars, chatVars, diffViewVars, uploadVars, parseVars, appVars>>

\* another definition is handed in: the effect on [definition, xmlContent]
\* resets the selection, the analysis and the cache
DefinitionChanges ==
    /\ definition < MaxDefinitions
    /\ definition' = definition + 1
    /\ flowVisualizer' = [flowVisualizer EXCEPT !.selectedStep = Null, !.analysis = Null,
                                                !.analysisCache = [id \in StepIds |-> Undefined]]
    /\ UNCHANGED <<flowRequests, oracleVars, chatVars, diffViewVars, uploadVars, parseVars,
                   appVars>>

NextFlow ==
    \/ \E id \in StepIds : SelectStep([id |-> id])
    \/ \E k \in 1..MaxRequests : AnalyzeFlowStepSettles(k)
    \/ DefinitionChanges

SpecFlow == InitDiff /\ [][NextFlow]_vars

\* C29: once no call of the flow visualizer is waiting, the analysis shown is
\* that of the selected step of the current definition (or none, or the
\* failure text), and every entry of analysisCache is the analysis of the
\* step of the current definition it is keyed by
C29_SettledAnalysisIsCurrent ==
    flowRequests = <<>> =>
        /\ \/ flowVisualizer.analysis \in {Null, [text |-> FailedToAnalyze]}
           \/ /\ flowVisualizer.selectedStep # Null
              /\ flowVisualizer.analysis = FlowAnalysisOf(flowVisualizer.selectedStep, definition)
        /\ \A id \in StepIds :
              flowVisualizer.analysisCache[id] # Undefined =>
                  flowVisualizer.analysisCache[id] = FlowAnalysisOf([id |-> id], definition)

\* C30: the analysis the diff view shows is that of the selected FileDiff,
\* isAnalyzing is true exactly while a call for the selected FileDiff is
\* waiting, and a selected FileDiff of status removed shows no analysis
C30_AnalysisOfSelected ==
    /\ diffView.analysis # Null =>
          /\ selectedFileDiff # Null
          /\ diffView.analysis = AnalysisOf(selectedFileDiff)
    /\ diffView.isAnalyzing <=> \E k \in 1..Len(diffRequests) : diffRequests[k] = selectedFileDiff
    /\ (selectedFileDiff # Null /\ selectedFileDiff.status = "removed") =>
          diffView.analysis = Null

====
